---- MODULE Spec2Model ----
(***************************************************************************)
(* GrooveTask: the data-consistency layer of the server (identity store,   *)
(* task collection store, group task and chat endpoints) and the client    *)
(* handlers that drive it.                                                 *)
(*                                                                         *)
(* All shared state lives in the Redis key-value store.  In the identity   *)
(* specifications (SpecRegister, SpecSettings) every `await redis.<cmd>`   *)
(* of a handler is one atomic step and handlers interleave between steps.  *)
(* In the task specification (SpecData) requests are served one at a time: *)
(* an action is one client handler together with the requests it sends,    *)
(* or one request sent by another party, with its store commands in        *)
(* program order.  The repository holds two builds of the server that      *)
(* differ in several handlers: src/api/index.ts (lines 567-1298) and the   *)
(* server file stored in src/types.ts (lines 57-673).  The variable        *)
(* `deployed` says which build serves the store; it is chosen in Init and  *)
(* never changes.  Handlers that are the same in both builds are modelled  *)
(* once, handlers and helpers that differ have one definition per build    *)
(* (suffix _srv for the build in src/types.ts).  The group endpoints exist *)
(* in src/api/index.ts only.                                               *)
(*                                                                         *)
(* Strings are sequences of one-character strings, so that toLowerCase,    *)
(* the stripping of the e-mail local part and the suffixing of user names  *)
(* are computed character by character.                                    *)
(***************************************************************************)
EXTENDS Integers, Sequences, FiniteSets, Bags, TLC

VARIABLES
  deployed,    \* "api" (src/api/index.ts) or "srv" (src/types.ts): the build in service
  username,    \* keys username:<lowercase name>  ->  user id
  email,       \* keys email:<lowercase email>    ->  user id
  user,        \* keys user:<uid>                 ->  profile record
  legacyUser,  \* keys user:<email> of the old format (set of e-mails that have one)
  reg,         \* in-flight POST /api/auth/register requests
  ses,         \* in-flight POST /api/user/settings requests
  claimants,   \* observer: per user-name key, the users whose claim of it succeeded
               \* since the key was last deleted
  changes,     \* observer: per user, the number of completed user-name changes
  tasksKey,    \* key data:tasks:<uid> of user 1: absent, legacy JSON array or hash
  orderKey,    \* key data:tasks:order:<uid> of user 1: absent or a list of ids
  groupMeta,   \* hash group:<gid>:meta of the one group: absent or the Group record
  members,     \* set group:<gid>:members of the one group
  groupInvites, \* set group:<gid>:invites of the one group
  invites,     \* users whose set user:<uid>:invites holds the group
  userGroups,  \* users whose set user:<uid>:groups holds the group
  grp,         \* in-flight requests to the group endpoints
  tasksGroup,  \* hash tasks:group:<gid>: task id -> task
  orderGroup,  \* key tasks:group:order:<gid>: absent or a list of ids
  chatKey,     \* list chat:<gid>:messages
  view,        \* the clients' state view: 'personal' or 'group'
  isLoggedIn,  \* client of user 1: currentUser is set
  personalTasks, \* client of user 1: state personalTasks
  groupTasks,  \* per client: the SWR cache of GET /api/groups/<gid>/tasks
  toasts,      \* client state toasts: the messages of the notices added so far
  appended,    \* observer: the ids of the chat messages pushed to the list so far, in
               \* push order
  lgn,         \* in-flight POST /api/auth/login requests
  job,         \* in-flight calls of saveTasks and getTasks on the personal task key
  avail,       \* the last reply of check-username, <<>> before the first
  visible,     \* per client: the page is visible (document.visibilityState)
  messages,    \* per client: the SWR cache of GET /api/groups/<gid>/chat
  network,     \* "up": every fetch of a client is served; "flaky": a fetch may be
               \* rejected before it reaches the server
  clock,       \* number of fresh values (Date.now(), uuidv4()) handed out
  resp,        \* the requests of the last client or server action, with their replies
  prev         \* the last request of the action before that, when it was a read
               \* of a legacy collection or a forced empty save


----------------------------------------------------------------------------
(* Bounds of the model *)

\* number of concurrent register requests
NReg == 2
\* number of settings requests
NSes == 3

(* Program constants *)

\* a loop that runs once more
MaxAttempts_eleven == 10 + 1

\* while (attempts < 10)
MaxAttempts == 10
\* if (base.length < 3) base = base.padEnd(3, 'x')
BaseMinLen == 3
\* if (base.length > 15) base = base.substring(0, 15)
BaseMaxLen == 15
\* Math.floor(1000 + Math.random() * 9000): smallest and largest suffix
SuffixLo == 1000
SuffixHi == 9999
\* password: z.string().min(8)
PasswordMinLen == 8
\* usernameSchema: z.string().min(3).max(20)
UsernameMinLen == 3
UsernameMaxLen == 20
\* if (count >= 3) return 403
MaxUsernameChanges == 3

----------------------------------------------------------------------------
(* Strings *)

NoVal == <<"~none">>

UpperChars == {"A", "J"}
LowerChars == {"a", "b", "c", "e", "j", "l", "n", "o", "r", "x", "i"}
DigitChars == <<"0", "1", "2", "3", "4", "5", "6", "7", "8", "9">>
DigitSet == {DigitChars[i] : i \in 1..10}

\* the character class [a-zA-Z0-9_]
WordChars == UpperChars \cup LowerChars \cup DigitSet \cup {"_"}

toLowerChar(c) == CASE c = "A" -> "a" [] c = "J" -> "j" [] OTHER -> c

\* String.prototype.toLowerCase
toLowerCase(s) == [i \in 1..Len(s) |-> toLowerChar(s[i])]

IsWordChar(c) == c \in WordChars

\* s.replace(/[^a-zA-Z0-9_]/g, '')
stripNonWord(s) == SelectSeq(s, IsWordChar)

\* s.padEnd(n, c)
padEnd(s, n, c) == IF Len(s) >= n THEN s ELSE s \o [i \in 1..(n - Len(s)) |-> c]

\* s.substring(0, n)
substring0(s, n) == IF Len(s) <= n THEN s ELSE SubSeq(s, 1, n)

\* index of the first "@" of s, 0 when there is none
RECURSIVE firstAt(_, _)
firstAt(s, i) == IF i > Len(s) THEN 0 ELSE IF s[i] = "@" THEN i ELSE firstAt(s, i + 1)

\* email.split('@')[0]
localPart(s) == IF firstAt(s, 1) = 0 THEN s ELSE SubSeq(s, 1, firstAt(s, 1) - 1)

\* `${n}` for a non-negative integer n
RECURSIVE numToString(_)
numToString(n) == IF n < 10 THEN <<DigitChars[n + 1]>>
                  ELSE numToString(n \div 10) \o <<DigitChars[(n % 10) + 1]>>

\* the base user name generateAndClaimUniqueUsername derives from an e-mail
deriveBase(mail) ==
  substring0(padEnd(stripNonWord(localPart(mail)), BaseMinLen, "x"), BaseMaxLen)

\* z.string().email(): one "@", a local part and a domain with a dot
isEmail(s) ==
  LET at == firstAt(s, 1) IN
    /\ at > 1
    /\ at < Len(s)
    /\ firstAt(SubSeq(s, at + 1, Len(s)), 1) = 0
    /\ \E i \in (at + 2)..(Len(s) - 1) : s[i] = "."
    /\ \A i \in 1..(at - 1) : s[i] \in WordChars \cup {"."}

\* usernameSchema: min(3), max(20), /^[a-zA-Z0-9_]+$/
usernameSchema(s) ==
  /\ Len(s) >= UsernameMinLen
  /\ Len(s) <= UsernameMaxLen
  /\ \A i \in 1..Len(s) : s[i] \in WordChars

----------------------------------------------------------------------------
(* The key-value store: keys of one family are a function whose domain is  *)
(* the set of keys that exist.                                             *)

Has(f, k) == k \in DOMAIN f

\* redis.set(key, value)
Set(f, k, v) == [x \in DOMAIN f \cup {k} |-> IF x = k THEN v ELSE f[x]]

\* redis.del(key)
Del(f, k) == [x \in DOMAIN f \ {k} |-> f[x]]

Empty == [x \in {} |-> 0]

\* a plain SET in place of SET ... NX: always 'OK', overwrites
SetNX_overwrites(f, k, v) == [ok |-> TRUE, store |-> Set(f, k, v)]

\* redis.set(key, value, { nx: true }): the reply ('OK' or null) and the
\* store after the command
SetNX(f, k, v) == [ok |-> ~Has(f, k), store |-> IF Has(f, k) THEN f ELSE Set(f, k, v)]

\* the users who run a client in view 'group'
Clients == {2}

\* the pages and the chat caches of the clients
pollVars == <<visible, messages>>

\* every page is visible and no chat has been fetched (fallbackData: [])
NoPoll == visible = [d \in Clients |-> TRUE] /\ messages = [d \in Clients |-> <<>>]

\* number of login requests
NLog == 2

LogIds == 1..NLog

\* a login request before its first await, with its locals
IdleLog == [pc |-> "idle", cleanId |-> NoVal, isMatch |-> FALSE, userId |-> 0,
            requiresMigration |-> FALSE, base |-> NoVal, candidate |-> NoVal,
            attempts |-> 0, newUsername |-> NoVal, result |-> "none"]

\* number of concurrent calls of the task helpers
NJob == 2

JobIds == 1..NJob

\* a call of saveTasks or getTasks before its first await, with its locals;
\* `seen` is the set of ids of the tasks a getTasks returns, and `before`
\* (an observer) the set a read answered just before the call would return
IdleJob == [pc |-> "idle", op |-> "none", type |-> "none", tasks |-> <<>>,
            currentIds |-> {}, seen |-> {}, before |-> {}]

\* the state of the later specifications
flightVars == <<appended, pollVars, lgn, avail, job>>

NoFlight == appended = <<>> /\ NoPoll /\ lgn = [l \in LogIds |-> IdleLog] /\ avail = <<>>
  /\ job = [j \in JobIds |-> IdleJob]

\* the task, group and client state
dataVars == <<tasksKey, orderKey, groupMeta, members, groupInvites, invites, userGroups,
              grp, tasksGroup, orderGroup, chatKey,
              view, isLoggedIn, personalTasks, groupTasks, toasts, network, flightVars, clock, resp,
              prev>>

\* a key that does not exist (redis.type gives 'none')
None == [type |-> "none"]

\* no request yet
NoRequest == [op |-> "none"]

\* no task data, no group, no client
NoData ==
  /\ tasksKey = None /\ orderKey = NoVal
  /\ groupMeta = None /\ members = {} /\ groupInvites = {} /\ invites = {}
  /\ userGroups = {} /\ grp = <<>>
  /\ tasksGroup = <<>> /\ orderGroup = NoVal
  /\ chatKey = <<>> /\ groupTasks = <<>> /\ toasts = <<>> /\ network = "up"
  /\ NoFlight
  /\ view = "personal" /\ isLoggedIn = FALSE /\ personalTasks = <<>>
  /\ clock = 0 /\ resp = <<>> /\ prev = NoRequest

----------------------------------------------------------------------------
(* Inputs *)

Jane_x      == <<"j","a","n","e","@","x",".","i","o">>
JDotAne_x   == <<"j",".","a","n","e","@","x",".","i","o">>
JaneUpper_x == <<"J","a","n","e","@","x",".","i","o">>
NoAtSign    == <<"j","a","n","e">>

\* e-mails submitted to register: two that derive the base "jane", one that
\* equals the first up to case, one that is malformed
RegEmails == {Jane_x, JDotAne_x, JaneUpper_x, NoAtSign}

PasswordLens == {PasswordMinLen - 1, PasswordMinLen}

Suffixes == {SuffixLo, SuffixHi}

RegIds == 1..NReg
SesIds == 1..NSes

\* uuidv4() of register request r: fresh, distinct from every stored id
NewUid(r) == 100 + r


----------------------------------------------------------------------------
(* Accounts present before the modelled requests arrive.  Each is a state  *)
(* an earlier successful registration leaves: user record, e-mail key and  *)
(* user-name key agree.                                                    *)

Old1_x == <<"o","1","@","x",".","i","o">>
Old2_x == <<"o","2","@","x",".","i","o">>

Name_jane     == <<"j","a","n","e">>
Name_jane1000 == <<"j","a","n","e","1","0","0","0">>
Name_alice    == <<"a","l","i","c","e">>
Name_bob      == <<"b","o","b">>
Name_carol    == <<"c","a","r","o","l">>
Name_Alice    == <<"A","l","i","c","e">>
Name_bad      == <<"b","o","b","."," ">>

DefaultTheme == "neon-blue"

Profile(mail, name, count, theme) ==
  [email |-> mail, username |-> name, usernameChangeCount |-> count, themeId |-> theme]

\* the store holding the accounts `accts` (uid -> profile)
UsernameIndexOf(accts) ==
  [n \in {toLowerCase(accts[u].username) : u \in DOMAIN accts} |->
     CHOOSE u \in DOMAIN accts : toLowerCase(accts[u].username) = n]

EmailIndexOf(accts) ==
  [m \in {accts[u].email : u \in DOMAIN accts} |->
     CHOOSE u \in DOMAIN accts : accts[u].email = m]

IdleReg == [pc |-> "idle", email |-> NoVal, userId |-> 0, base |-> NoVal,
            candidate |-> NoVal, attempts |-> 0, username |-> NoVal, result |-> "none"]

IdleSes == [pc |-> "idle", uid |-> 0, newName |-> NoVal, themeId |-> "",
            snap |-> Profile(NoVal, NoVal, 0, ""), claimed |-> FALSE, result |-> "none"]

----------------------------------------------------------------------------
(* POST /api/auth/register *)

RegStep(r, rec) == reg' = [reg EXCEPT ![r] = rec]

RegDone(r, res) == RegStep(r, [reg[r] EXCEPT !.pc = "done", !.result = res])

\* the request after validation and the e-mail lookup have passed
RegClaiming(r, clean) ==
  [reg[r] EXCEPT !.pc = "claim", !.email = clean, !.userId = NewUid(r),
                 !.base = deriveBase(clean), !.candidate = deriveBase(clean),
                 !.attempts = 0]

\* registerSchema: { email: z.string().email(), password: z.string().min(8) }
registerSchema(mail, pwLen) == isEmail(mail) /\ pwLen >= PasswordMinLen

\* api build: registerSchema.parse throws inside the try block (500), then
\* `if (await redis.get(`email:${cleanEmail}`)) return 409`
register_getEmail(r) ==
  /\ deployed = "api"
  /\ reg[r].pc = "idle"
  /\ \E mail \in RegEmails, pwLen \in PasswordLens :
       LET clean == toLowerCase(mail) IN
         IF ~registerSchema(mail, pwLen) THEN RegDone(r, "Internal")
         ELSE IF Has(email, clean) THEN RegDone(r, "AlreadyExists")
         ELSE RegStep(r, RegClaiming(r, clean))
  /\ UNCHANGED <<deployed, username, email, user, legacyUser, ses, claimants, changes>>

\* srv build: safeParse failure is a 400, then the e-mail lookup
register_getEmail_srv(r) ==
  /\ deployed = "srv"
  /\ reg[r].pc = "idle"
  /\ \E mail \in RegEmails, pwLen \in PasswordLens :
       LET clean == toLowerCase(mail) IN
         IF ~registerSchema(mail, pwLen) THEN RegDone(r, "InvalidInput")
         ELSE IF Has(email, clean) THEN RegDone(r, "AlreadyExists")
         ELSE RegStep(r, [reg[r] EXCEPT !.pc = "getOld", !.email = clean])
  /\ UNCHANGED <<deployed, username, email, user, legacyUser, ses, claimants, changes>>

\* srv build: `const oldUser = await redis.get(`user:${cleanEmail}`)`
register_getOld_srv(r) ==
  /\ deployed = "srv"
  /\ reg[r].pc = "getOld"
  /\ IF reg[r].email \in legacyUser THEN RegDone(r, "AlreadyExists")
     ELSE RegStep(r, RegClaiming(r, reg[r].email))
  /\ UNCHANGED <<deployed, username, email, user, legacyUser, ses, claimants, changes>>

\* one iteration of the loop of generateAndClaimUniqueUsername: the
\* conditional write, then either the return or the next candidate; the
\* throw after the tenth failure is caught by register (500)
generateAndClaimUniqueUsername(r) ==
  /\ reg[r].pc = "claim"
  /\ reg[r].attempts < MaxAttempts
  /\ LET key    == toLowerCase(reg[r].candidate)
         result == SetNX(username, key, reg[r].userId) IN
       /\ username' = result.store
       /\ IF result.ok
          THEN RegStep(r, [reg[r] EXCEPT !.pc = "setUser", !.username = reg[r].candidate])
          ELSE \E suffix \in Suffixes :
                 LET next == [reg[r] EXCEPT !.attempts = @ + 1,
                                            !.candidate = reg[r].base \o numToString(suffix)]
                 IN IF next.attempts < MaxAttempts
                    THEN RegStep(r, next)
                    ELSE RegStep(r, [next EXCEPT !.pc = "done", !.result = "Internal"])
  /\ UNCHANGED <<deployed, email, user, legacyUser, ses, claimants, changes>>

\* await redis.set(`user:${userId}`, newUser)
register_setUser(r) ==
  /\ reg[r].pc = "setUser"
  /\ user' = Set(user, reg[r].userId,
                 Profile(reg[r].email, reg[r].username, 0, DefaultTheme))
  /\ RegStep(r, [reg[r] EXCEPT !.pc = "setEmail"])
  /\ UNCHANGED <<deployed, username, email, legacyUser, ses, claimants, changes>>

\* await redis.set(`email:${cleanEmail}`, userId), then the 201 response
register_setEmail(r) ==
  /\ reg[r].pc = "setEmail"
  /\ email' = Set(email, reg[r].email, reg[r].userId)
  /\ RegDone(r, "Created")
  /\ UNCHANGED <<deployed, username, user, legacyUser, ses, claimants, changes>>

Register(r) ==
  \/ register_getEmail(r)
  \/ register_getEmail_srv(r)
  \/ register_getOld_srv(r)
  \/ generateAndClaimUniqueUsername(r)
  \/ register_setUser(r)
  \/ register_setEmail(r)

\* accounts that exist before the registrations: none, "jane", or "jane" and "jane1000"
RegSeeds ==
  LET a1 == 1 :> Profile(Old1_x, Name_jane, 0, DefaultTheme)
      a2 == 2 :> Profile(Old2_x, Name_jane1000, 0, DefaultTheme)
  IN {Empty, a1, a1 @@ a2}

InitRegister ==
  /\ deployed \in {"api", "srv"}
  /\ \E accts \in RegSeeds :
       /\ user = accts
       /\ username = UsernameIndexOf(accts)
       /\ email = EmailIndexOf(accts)
  /\ legacyUser \in (IF deployed = "srv" THEN {{}, {JDotAne_x}} ELSE {{}})
  /\ reg = [r \in RegIds |-> IdleReg]
  /\ ses = [s \in SesIds |-> IdleSes]
  /\ claimants = [n \in DOMAIN username |-> {username[n]}]
  /\ changes = [u \in DOMAIN user |-> user[u].usernameChangeCount]
  /\ NoData

NextRegister == (\E r \in RegIds : Register(r)) /\ UNCHANGED dataVars

vars == <<deployed, username, email, user, legacyUser, reg, ses, claimants, changes,
          tasksKey, orderKey, groupMeta, members, groupInvites, invites, userGroups, grp,
          tasksGroup, orderGroup, chatKey,
          view, isLoggedIn, personalTasks, groupTasks, toasts, network, flightVars, clock, resp,
          prev>>

SpecRegister == InitRegister /\ [][NextRegister]_vars

----------------------------------------------------------------------------
(* POST /api/user/settings *)

\* theme the client submits with every settings save
SubmittedTheme == "neon-pink"

\* the `username` field of the request body: absent, a name that differs
\* from "alice" only by case, a free name, a name of invalid format
RenameNames == {NoVal, Name_Alice, Name_carol, Name_bad}

SesStep(s, rec) == ses' = [ses EXCEPT ![s] = rec]

SesDone(s, res) == SesStep(s, [ses[s] EXCEPT !.pc = "done", !.result = res])

\* `username && username.toLowerCase() !== user.username.toLowerCase()`
isRename(newName, profile) ==
  newName # NoVal /\ toLowerCase(newName) # toLowerCase(profile.username)

\* the request as it is once `user` has been read
SesStarted(s, u, newName) ==
  [IdleSes EXCEPT !.uid = u, !.newName = newName, !.themeId = SubmittedTheme,
                  !.snap = user[u],
                  !.pc = IF isRename(newName, user[u]) THEN "claim" ELSE "setUser"]

\* api build: `const user = await redis.get(`user:${userId}`)`, then the
\* test whether the body renames; no format check, no check of the counter
settings_getUser(s) ==
  /\ deployed = "api"
  /\ ses[s].pc = "idle"
  /\ \E u \in DOMAIN user, newName \in RenameNames :
       SesStep(s, SesStarted(s, u, newName))
  /\ UNCHANGED <<deployed, username, email, user, legacyUser, reg, claimants, changes>>

\* srv build: the same read, then usernameSchema (400) and the cap (403)
settings_getUser_srv(s) ==
  /\ deployed = "srv"
  /\ ses[s].pc = "idle"
  /\ \E u \in DOMAIN user, newName \in RenameNames :
       LET started == SesStarted(s, u, newName) IN
         IF ~isRename(newName, user[u]) THEN SesStep(s, started)
         ELSE IF ~usernameSchema(newName)
              THEN SesStep(s, [started EXCEPT !.pc = "done", !.result = "InvalidInput"])
         ELSE IF user[u].usernameChangeCount >= MaxUsernameChanges
              THEN SesStep(s, [started EXCEPT !.pc = "done", !.result = "Forbidden"])
         ELSE SesStep(s, started)
  /\ UNCHANGED <<deployed, username, email, user, legacyUser, reg, claimants, changes>>

\* releasing the old name before the conditional write of the new one
claimNewName_releaseFirst(idx, oldName, newName, uid) ==
  SetNX(Del(idx, toLowerCase(oldName)), toLowerCase(newName), uid)

\* `redis.set(`username:${username.toLowerCase()}`, userId, { nx: true })`
claimNewName(idx, oldName, newName, uid) == SetNX(idx, toLowerCase(newName), uid)

\* the conditional claim of the new name; `if (!claimed) return 409`
settings_claim(s) ==
  /\ ses[s].pc = "claim"
  /\ LET key    == toLowerCase(ses[s].newName)
         result == claimNewName(username, ses[s].snap.username, ses[s].newName, ses[s].uid) IN
       /\ username' = result.store
       /\ IF result.ok
          THEN /\ SesStep(s, [ses[s] EXCEPT !.pc = "del", !.claimed = TRUE])
               /\ claimants' = [n \in DOMAIN claimants \cup {key} |->
                                  IF n = key
                                  THEN (IF Has(claimants, key) THEN claimants[key] ELSE {})
                                         \cup {ses[s].uid}
                                  ELSE claimants[n]]
          ELSE /\ SesDone(s, "Conflict")
               /\ UNCHANGED claimants
  /\ UNCHANGED <<deployed, email, user, legacyUser, reg, changes>>

\* `await redis.del(`username:${user.username.toLowerCase()}`)`, the name
\* being the one read at the start of the request
settings_del(s) ==
  /\ ses[s].pc = "del"
  /\ username' = Del(username, toLowerCase(ses[s].snap.username))
  /\ claimants' = [n \in DOMAIN claimants |->
                     IF n = toLowerCase(ses[s].snap.username) THEN {} ELSE claimants[n]]
  /\ SesStep(s, [ses[s] EXCEPT !.pc = "setUser"])
  /\ UNCHANGED <<deployed, email, user, legacyUser, reg, changes>>

\* the profile `await redis.set(`user:${userId}`, user)` writes: the record
\* read at the start with the new name, the counter plus one and the settings
settings_newProfile(s) ==
  IF ses[s].claimed
  THEN [ses[s].snap EXCEPT !.username = ses[s].newName,
                           !.usernameChangeCount = @ + 1,
                           !.themeId = IF ses[s].themeId # "" THEN ses[s].themeId ELSE @]
  ELSE [ses[s].snap EXCEPT !.themeId = IF ses[s].themeId # "" THEN ses[s].themeId ELSE @]

settings_setUser(s) ==
  /\ ses[s].pc = "setUser"
  /\ user' = Set(user, ses[s].uid, settings_newProfile(s))
  /\ changes' = [changes EXCEPT ![ses[s].uid] = IF ses[s].claimed THEN @ + 1 ELSE @]
  /\ SesDone(s, "OK")
  /\ UNCHANGED <<deployed, username, email, legacyUser, reg, claimants>>

Settings(s) ==
  \/ settings_getUser(s)
  \/ settings_getUser_srv(s)
  \/ settings_claim(s)
  \/ settings_del(s)
  \/ settings_setUser(s)

\* two accounts: "alice", who has changed her name twice, and "bob"
SesSeeds ==
  (1 :> Profile(Old1_x, Name_alice, 2, DefaultTheme))
    @@ (2 :> Profile(Old2_x, Name_bob, 0, DefaultTheme))

InitSettings ==
  /\ deployed \in {"api", "srv"}
  /\ user = SesSeeds
  /\ username = UsernameIndexOf(SesSeeds)
  /\ email = EmailIndexOf(SesSeeds)
  /\ legacyUser = {}
  /\ reg = [r \in RegIds |-> IdleReg]
  /\ ses = [s \in SesIds |-> IdleSes]
  /\ claimants = [n \in DOMAIN username |-> {username[n]}]
  /\ changes = [u \in DOMAIN user |-> user[u].usernameChangeCount]
  /\ NoData

NextSettings == (\E s \in SesIds : Settings(s)) /\ UNCHANGED dataVars

SpecSettings == InitSettings /\ [][NextSettings]_vars

----------------------------------------------------------------------------
(* Claims about registration, checked under SpecRegister *)

\* register requests that are past validation and the e-mail lookup
Claimers == {r \in RegIds : reg[r].base # NoVal}

\* register requests that were told they claimed a user name
Claimed == {r \in RegIds : reg[r].username # NoVal}

\* C1 as stated: N concurrent registrations whose e-mails derive the same
\* base end with N distinct user names claimed, each by its own new user id
C1_AllClaimDistinct ==
  (\A r \in RegIds : reg[r].pc = "done" /\ r \in Claimers) =>
     /\ \A r \in RegIds : reg[r].result = "Created" /\ r \in Claimed
     /\ \A r1, r2 \in RegIds :
          r1 # r2 => toLowerCase(reg[r1].username) # toLowerCase(reg[r2].username)

\* C1 amended: no two registrations are ever told that they claimed the same
\* case-insensitive user name, every name a registration was told it claimed
\* is mapped to that registration's own new user id, and a registration that
\* went into the claim loop ends either created or, after ten failed
\* conditional writes, with the generation-exhausted failure
C1_ClaimsDistinctOrExhausted ==
  /\ \A r1, r2 \in Claimed :
       r1 # r2 => /\ toLowerCase(reg[r1].username) # toLowerCase(reg[r2].username)
                  /\ reg[r1].userId # reg[r2].userId
  /\ \A r \in Claimed :
       /\ Has(username, toLowerCase(reg[r].username))
       /\ username[toLowerCase(reg[r].username)] = reg[r].userId
  /\ \A r \in Claimers :
       reg[r].pc = "done" =>
         \/ reg[r].result = "Created" /\ r \in Claimed
         \/ reg[r].result = "Internal" /\ reg[r].attempts = MaxAttempts /\ r \notin Claimed

\* two registrations with different e-mails and the same base are both
\* created, one of them under a suffixed name
C1_Witness ==
  \E r1, r2 \in RegIds :
    /\ reg[r1].result = "Created" /\ reg[r2].result = "Created"
    /\ reg[r1].email # reg[r2].email
    /\ reg[r1].base = reg[r2].base
    /\ reg[r1].username = reg[r1].base
    /\ Len(reg[r2].username) = Len(reg[r2].base) + 4

\* C9 as stated: of the registrations submitted with the same e-mail at most
\* one is created, and no two user records ever carry the same e-mail
C9_OneAccountPerEmail ==
  /\ \A r1, r2 \in RegIds :
       (r1 # r2 /\ reg[r1].result = "Created" /\ reg[r2].result = "Created")
         => reg[r1].email # reg[r2].email
  /\ \A u1, u2 \in DOMAIN user : u1 # u2 => user[u1].email # user[u2].email

----------------------------------------------------------------------------
(* Claims about the settings update, checked under SpecSettings *)

\* settings requests that went through the conditional claim of a new name
PastClaim == {s \in SesIds : ses[s].newName # NoVal /\ isRename(ses[s].newName, ses[s].snap)
                             /\ ses[s].pc \in {"del", "setUser", "done"}
                             /\ ses[s].result \notin {"InvalidInput", "Forbidden"}}

\* C7: of the claims that compete for a user name (claims of a key that was
\* not deleted in between) at most one succeeds, the key maps to that one
\* claimant, and a rename that lost the claim ends with Conflict
C7_OneClaimWins ==
  /\ \A n \in DOMAIN claimants : Cardinality(claimants[n]) <= 1
  /\ \A n \in DOMAIN username : claimants[n] = {username[n]}
  /\ \A s \in PastClaim :
       \/ ses[s].claimed /\ ses[s].result \in {"none", "OK"}
       \/ ~ses[s].claimed /\ ses[s].pc = "done" /\ ses[s].result = "Conflict"

\* both races of the claim were lost by someone: a rename onto a name whose
\* owner was leaving it ended with Conflict, and of two renames of different
\* users onto the same free name one succeeded and one ended with Conflict
C7_Witness ==
  \E s1, s2, s3 \in SesIds :
    /\ ses[s1].uid = 2 /\ ses[s1].newName = Name_Alice /\ ses[s1].result = "Conflict"
    /\ ses[s2].uid = 1 /\ ses[s2].newName = Name_carol /\ ses[s2].result = "OK"
    /\ ses[s3].uid = 2 /\ ses[s3].newName = Name_carol /\ ses[s3].result = "Conflict"

\* C8: a settings request whose conditional claim finds the name taken ends
\* with Conflict in that step, and the step changes no key of the store
C8_FailedClaimWritesNothing ==
  [][\A s \in SesIds :
       (ses[s].pc = "claim" /\ Has(username, toLowerCase(ses[s].newName))) =>
          (ses'[s].pc # "claim" =>
             /\ ses'[s].pc = "done" /\ ses'[s].result = "Conflict"
             /\ username' = username /\ user' = user /\ email' = email)]_vars

\* a rename has ended with Conflict while the old name still maps to the
\* user and the stored profile is the one the request read
C8_Witness ==
  \E s \in SesIds :
    /\ ses[s].result = "Conflict"
    /\ Has(username, toLowerCase(ses[s].snap.username))
    /\ username[toLowerCase(ses[s].snap.username)] = ses[s].uid
    /\ user[ses[s].uid] = ses[s].snap

\* C10 as stated: the change counter of a user never decreases, no user
\* completes more than three user-name changes, and a rename attempted when
\* the counter is already three is rejected before any write
C10_CounterMonotoneAndCapped ==
  [][/\ \A u \in DOMAIN user :
          user'[u].usernameChangeCount >= user[u].usernameChangeCount
     /\ \A u \in DOMAIN changes : changes'[u] <= MaxUsernameChanges
     /\ \A s \in SesIds :
          (ses[s].pc = "idle" /\ ses'[s].pc # "idle"
             /\ isRename(ses'[s].newName, ses'[s].snap)
             /\ ses'[s].snap.usernameChangeCount >= MaxUsernameChanges)
            => ses'[s].pc = "done" /\ ses'[s].result \in {"Forbidden", "InvalidInput"}]_vars

----------------------------------------------------------------------------
(* Task collections: values.  A task or a request body is a record that    *)
(* has exactly the properties the object has, so `t.count || 0` asks       *)
(* whether the record has the field.  title, description, completedAt,     *)
(* updatedBy and groupId are left out: no handler branches on them.        *)

\* number of fresh values (task ids, log entry ids, timestamps) the clients draw
MaxStamp == 2
\* number of tasks a client creates a task up to
MaxTasks == 3
\* lrange(key, -100, -1): the page a chat read returns
ChatPage == 100
\* ltrim(key, -500, -1): the messages the chat list keeps
ChatKeep == 500

\* the n-th uuidv4() of the clients
uuidv4(n) == <<"n1", "n2", "n3", "n4", "n5", "n6">>[n]

\* the task handleCreateTask builds
Task(id, type, createdAt, count, log) ==
  [id |-> id, type |-> type, isCompleted |-> FALSE, createdAt |-> createdAt,
   count |-> count, log |-> log]

\* a task written before tasks had a type
LegacyTask(id, createdAt) == [id |-> id, isCompleted |-> FALSE, createdAt |-> createdAt]

\* t.count || 0
countOf(t) == IF "count" \in DOMAIN t THEN t.count ELSE 0

\* t.log || []
logOf(t) == IF "log" \in DOMAIN t THEN t.log ELSE <<>>

\* tasks.map(t => t.id)
ids(tasks) == [i \in DOMAIN tasks |-> tasks[i].id]

Range(f) == {f[x] : x \in DOMAIN f}

\* tasks.sort((a, b) => a.createdAt - b.createdAt): stable
RECURSIVE sortByCreatedAt(_)
sortByCreatedAt(tasks) ==
  IF tasks = <<>> THEN <<>>
  ELSE LET m == CHOOSE i \in DOMAIN tasks :
                  \A j \in DOMAIN tasks :
                     \/ tasks[j].createdAt > tasks[i].createdAt
                     \/ tasks[j].createdAt = tasks[i].createdAt /\ j >= i
       IN <<tasks[m]>> \o
            sortByCreatedAt([k \in 1..(Len(tasks) - 1) |->
                               IF k < m THEN tasks[k] ELSE tasks[k + 1]])

\* the walk of the order list that emits a task once and keeps it for later ids
RECURSIVE orderTasks_noDelete(_, _, _)
orderTasks_noDelete(order, taskMap, sortedTasks) ==
  IF order = <<>> THEN [sortedTasks |-> sortedTasks, taskMap |-> taskMap]
  ELSE LET t == SelectSeq(taskMap, LAMBDA x : x.id = Head(order))
       IN orderTasks_noDelete(Tail(order), taskMap,
                              IF t = <<>> THEN sortedTasks ELSE Append(sortedTasks, t[1]))

\* order.forEach(id => { const t = taskMap.get(id);
\*                       if (t) { sortedTasks.push(t); taskMap.delete(id); } })
\* taskMap is the Map in insertion order, as the sequence of its values
RECURSIVE orderTasks(_, _, _)
orderTasks(order, taskMap, sortedTasks) ==
  IF order = <<>> THEN [sortedTasks |-> sortedTasks, taskMap |-> taskMap]
  ELSE LET t == SelectSeq(taskMap, LAMBDA x : x.id = Head(order))
       IN IF t = <<>>
          THEN orderTasks(Tail(order), taskMap, sortedTasks)
          ELSE orderTasks(Tail(order),
                          SelectSeq(taskMap, LAMBDA x : x.id # Head(order)),
                          Append(sortedTasks, t[1]))

\* the fields of a key: of a hash its fields, of any other key none
fieldsOf(key) == IF key.type = "hash" THEN key.hash ELSE <<>>

\* a hash key holding h; a hash without fields does not exist
hashKey(h) == IF DOMAIN h = {} THEN None ELSE [type |-> "hash", hash |-> h]

\* a key holding a JSON array (the legacy form of a task collection)
stringKey(tasks) == [type |-> "string", blob |-> tasks]

\* hashData / hashUpdates: [t.id] = JSON.stringify(t) for each task, later wins
hashUpdates(tasks) ==
  [id \in Range(ids(tasks)) |->
     tasks[CHOOSE i \in DOMAIN tasks :
             tasks[i].id = id /\ \A j \in DOMAIN tasks : tasks[j].id = id => j <= i]]

----------------------------------------------------------------------------
(* Task collections: the helpers getTasks and saveTasks of both builds.    *)
(* Each takes the stored keys it reads and gives its result and the keys   *)
(* as its store commands leave them.                                       *)

\* getTasks of src/api/index.ts; vals is Object.values of the hash reply
getTasks(key, vals, order) ==
  LET walked == orderTasks(order, vals, <<>>)
      out == IF key.type = "hash"
             THEN IF order # NoVal
                  THEN walked.sortedTasks \o walked.taskMap
                  ELSE sortByCreatedAt(vals)
             ELSE <<>>
  IN [out |-> out, key |-> key, order |-> order]

\* getTasks of src/types.ts: a key of type 'string' is migrated to the hash
getTasks_srv(key, vals, order) ==
  LET walked == orderTasks(order, vals, <<>>)
  IN IF key.type = "string"
     THEN [out |-> key.blob,
           key |-> hashKey(hashUpdates(key.blob)),
           order |-> IF key.blob # <<>> THEN ids(key.blob) ELSE order]
     ELSE [out |-> IF key.type = "hash"
                   THEN IF order # NoVal
                        THEN walked.sortedTasks \o sortByCreatedAt(walked.taskMap)
                        ELSE sortByCreatedAt(vals)
                   ELSE <<>>,
           key |-> key, order |-> order]

\* the task list of GET /api/groups/:id/tasks, after the membership check
groupTasksOf(vals, order) ==
  LET walked == orderTasks(order, vals, <<>>)
  IN IF vals = <<>> THEN <<>>
     ELSE IF order # NoVal /\ Len(order) > 0
          THEN walked.sortedTasks \o walked.taskMap
          ELSE sortByCreatedAt(vals)

\* cleanTasks of src/api/index.ts
cleanTask(t) ==
  [id |-> t.id,
   type |-> IF "type" \in DOMAIN t THEN t.type ELSE "simple",
   isCompleted |-> t.isCompleted,
   count |-> IF "count" \in DOMAIN t THEN t.count ELSE 0,
   log |-> IF "log" \in DOMAIN t THEN t.log ELSE <<>>,
   createdAt |-> t.createdAt]

\* cleanTasks of src/types.ts: type, count and log are not copied
cleanTask_srv(t) == [id |-> t.id, isCompleted |-> t.isCompleted, createdAt |-> t.createdAt]

\* the sync of saveTasks: TYPE, DEL of a legacy value, HKEYS, then HDEL of
\* the ids the payload lacks and HSET of the payload
syncTasks(key, cleanTasks) ==
  LET current == fieldsOf(key)
      newIds == Range(ids(cleanTasks))
      idsToDelete == DOMAIN current \ newIds
      kept == [id \in DOMAIN current \ idsToDelete |-> current[id]]
      updates == hashUpdates(cleanTasks)
  IN hashKey([id \in DOMAIN kept \cup newIds |->
                IF id \in newIds THEN updates[id] ELSE kept[id]])

\* saveTasks without the guard on an empty list
saveTasks_noGuard(key, tasks, forceEmpty) ==
  syncTasks(key, [i \in DOMAIN tasks |-> cleanTask(tasks[i])])

\* saveTasks of src/api/index.ts
saveTasks(key, tasks, forceEmpty) ==
  IF tasks = <<>> /\ ~forceEmpty THEN key
  ELSE syncTasks(key, [i \in DOMAIN tasks |-> cleanTask(tasks[i])])

\* saveTasks of src/types.ts
saveTasks_srv(key, tasks, forceEmpty) ==
  IF tasks = <<>>
  THEN IF forceEmpty THEN None ELSE key
  ELSE syncTasks(key, [i \in DOMAIN tasks |-> cleanTask_srv(tasks[i])])

\* !!forceEmpty of a request body
forced(body) == "forceEmpty" \in DOMAIN body /\ body.forceEmpty

\* POST /api/user/data (both builds) on the keys db of the user
userData(db, body) ==
  [key |-> IF "tasks" \notin DOMAIN body THEN db.key
           ELSE IF deployed = "srv"
                THEN saveTasks_srv(db.key, body.tasks, forced(body))
                ELSE saveTasks(db.key, body.tasks, forced(body)),
   order |-> IF "order" \in DOMAIN body THEN body.order ELSE db.order]

----------------------------------------------------------------------------
(* Personal tasks: the client handlers of src/App.tsx and the requests     *)
(* they send, for the client of user 1                                     *)

acctVars == <<deployed, username, email, user, legacyUser, reg, ses, grp, claimants, changes,
              view, network, flightVars>>
memberVars == <<groupMeta, members, groupInvites, invites, userGroups>>
groupVars == <<memberVars, tasksGroup, orderGroup, chatKey, groupTasks>>

\* a list back to front
reversed(list) == [i \in DOMAIN list |-> list[Len(list) + 1 - i]]

\* Object.values(rawMap): the values of a hash reply come in an order the
\* store chooses; the model draws it from one arrangement and its reverse
ObjectValues(h) ==
  LET some == CHOOSE vals \in [1..Cardinality(DOMAIN h) -> Range(h)] :
                Range(vals) = Range(h)
  IN {some, reversed(some)}

\* the requests of this action become `resp`; `prev` keeps the last request
\* before them when it was a read of a legacy collection or a forced empty save
Answer(requests) ==
  /\ resp' = requests
  /\ prev' = IF resp = <<>> THEN prev
             ELSE LET last == resp[Len(resp)]
                  IN IF \/ last.op = "getTasks" /\ last.found = "string"
                        \/ last.op = "userData" /\ last.empty /\ last.forceEmpty
                     THEN last ELSE NoRequest

\* the record of a POST /api/user/data
Posted(body) ==
  [op |-> "userData",
   tasks |-> IF "tasks" \in DOMAIN body THEN body.tasks ELSE <<>>,
   empty |-> "tasks" \in DOMAIN body /\ body.tasks = <<>>,
   forceEmpty |-> forced(body),
   order |-> "order" \in DOMAIN body]

\* the record of a request whose fetch was rejected (network error): the
\* server did not serve it
Failed(op) == [op |-> "failed", of |-> op]

\* whether a fetch is served: always, or not always when the network is flaky
Served == IF network = "up" THEN {TRUE} ELSE BOOLEAN

\* { id: uuidv4(), timestamp: Date.now() }
LogEntry(stamp) == [id |-> stamp, timestamp |-> stamp]

\* { ...t, ...patch }
assign(t, patch) ==
  [f \in DOMAIN t \cup DOMAIN patch |-> IF f \in DOMAIN patch THEN patch[f] ELSE t[f]]

\* formType of the tasks the clients create (simple tasks are in the seeds)
FormTypes == {"counter"}

\* handleToggleTask on a counter that counts but does not log
toggled_noLog(t, stamp) ==
  IF "type" \in DOMAIN t /\ t.type = "counter"
  THEN assign(t, [count |-> countOf(t) + 1])
  ELSE assign(t, [isCompleted |-> ~t.isCompleted])

\* handleToggleTask: the task after the toggle
toggled(t, stamp) ==
  IF "type" \in DOMAIN t /\ t.type = "counter"
  THEN assign(t, [count |-> countOf(t) + 1, log |-> <<LogEntry(stamp)>> \o logOf(t)])
  ELSE assign(t, [isCompleted |-> ~t.isCompleted])

\* removal of one entry of a counter's log, with the count decremented
removeLogEntry(t, entryId) ==
  assign(t, [count |-> countOf(t) - 1,
             log |-> SelectSeq(logOf(t), LAMBDA e : e.id # entryId)])

\* GET /api/auth/me: getTasks of the build in service
authMe ==
  /\ view = "personal"
  /\ \E vals \in ObjectValues(fieldsOf(tasksKey)) :
    LET r == IF deployed = "srv" THEN getTasks_srv(tasksKey, vals, orderKey)
                                 ELSE getTasks(tasksKey, vals, orderKey)
    IN /\ tasksKey' = r.key /\ orderKey' = r.order
       /\ Answer(<<[op |-> "getTasks", found |-> tasksKey.type, out |-> r.out]>>)
       /\ UNCHANGED <<acctVars, groupVars, isLoggedIn, personalTasks, clock, toasts>>

\* the effect on mount: GET /api/auth/me, setPersonalTasks, and the persist
\* effect that posts the order of the loaded list
loadUser ==
  /\ view = "personal"
  /\ \E vals \in ObjectValues(fieldsOf(tasksKey)) :
    LET r == IF deployed = "srv" THEN getTasks_srv(tasksKey, vals, orderKey)
                                 ELSE getTasks(tasksKey, vals, orderKey)
        effect == [order |-> ids(r.out)]
        db == userData(r, effect)
    IN /\ isLoggedIn' = TRUE /\ personalTasks' = r.out
       /\ tasksKey' = db.key /\ orderKey' = db.order
       /\ Answer(<<[op |-> "getTasks", found |-> tasksKey.type, out |-> r.out],
                   Posted(effect)>>)
       /\ UNCHANGED <<acctVars, groupVars, clock, toasts>>

\* setPersonalTasks(newTasks), the POST of the handler, and the persist
\* effect that posts the order of the new list.  The fetch of the handler is
\* served (ok) or rejected; its promise is not awaited and has no catch.
save(newTasks, body) ==
  \E ok \in Served :
    LET effect == [order |-> ids(newTasks)]
        store == [key |-> tasksKey, order |-> orderKey]
        db == userData(IF ok THEN userData(store, body) ELSE store, effect)
    IN /\ personalTasks' = newTasks
       /\ tasksKey' = db.key /\ orderKey' = db.order
       /\ Answer(<<IF ok THEN Posted(body) ELSE Failed("userData"), Posted(effect)>>)
       /\ UNCHANGED <<acctVars, groupVars, isLoggedIn, toasts>>

\* handleToggleTask, view 'personal'
handleToggleTask ==
  /\ view = "personal" /\ isLoggedIn /\ clock < MaxStamp
  /\ \E i \in DOMAIN personalTasks :
       LET newTasks == [personalTasks EXCEPT ![i] = toggled(@, clock + 1)]
       IN save(newTasks, [tasks |-> newTasks])
  /\ clock' = clock + 1

\* handleCreateTask, view 'personal'
handleCreateTask ==
  /\ view = "personal" /\ isLoggedIn /\ clock < MaxStamp
  /\ Len(personalTasks) < MaxTasks
  /\ \E formType \in FormTypes :
       LET newTasks == Append(personalTasks,
                              Task(uuidv4(clock + 1), formType, clock + 1, 0, <<>>))
       IN save(newTasks, [tasks |-> newTasks, order |-> ids(newTasks)])
  /\ clock' = clock + 1

\* handleDeleteTask, view 'personal'
handleDeleteTask ==
  /\ view = "personal" /\ isLoggedIn
  /\ \E i \in DOMAIN personalTasks :
       LET newTasks == SelectSeq(personalTasks, LAMBDA t : t.id # personalTasks[i].id)
       IN save(newTasks, [tasks |-> newTasks, order |-> ids(newTasks)])
  /\ clock' = clock

\* handleSetList, view 'personal': a drag that reverses the list, then the
\* persist effect
handleSetList ==
  /\ view = "personal" /\ isLoggedIn /\ Len(personalTasks) > 1
  /\ \E newList \in {reversed(personalTasks)} :
       LET effect == [order |-> ids(newList)]
           db == userData([key |-> tasksKey, order |-> orderKey], effect)
       IN /\ personalTasks' = newList
          /\ tasksKey' = db.key /\ orderKey' = db.order
          /\ Answer(<<Posted(effect)>>)
  /\ UNCHANGED <<acctVars, groupVars, isLoggedIn, clock, toasts>>

\* removal of a log entry of a personal counter, saved like a toggle
handleDeleteLogEntry ==
  /\ view = "personal" /\ isLoggedIn
  /\ \E i \in DOMAIN personalTasks :
       \E j \in DOMAIN logOf(personalTasks[i]) :
         LET newTasks == [personalTasks EXCEPT
                            ![i] = removeLogEntry(@, logOf(@)[j].id)]
         IN save(newTasks, [tasks |-> newTasks, forceEmpty |-> TRUE])
  /\ clock' = clock

\* order lists another party posts: one with a duplicate id, one with an id
\* of no task and without an id of a task
RawOrders == {<<"t2", "t2", "t1">>, <<"t9", "t1">>}

\* POST /api/user/data sent by another party: an empty task list with or
\* without forceEmpty, or an order list
postUserData ==
  /\ view = "personal"
  /\ \E body \in {[tasks |-> <<>>], [tasks |-> <<>>, forceEmpty |-> TRUE]}
                \cup {[order |-> o] : o \in RawOrders} :
    LET db == userData([key |-> tasksKey, order |-> orderKey], body)
    IN /\ tasksKey' = db.key /\ orderKey' = db.order
       /\ Answer(<<Posted(body)>>)
       /\ UNCHANGED <<acctVars, groupVars, isLoggedIn, personalTasks, clock, toasts>>

----------------------------------------------------------------------------
(* Group tasks and chat: the endpoints of src/api/index.ts and the client  *)
(* handlers of src/App.tsx in view 'group', for the client of user 2       *)

Users == DOMAIN SesSeeds


\* groupMeta.ownerId
Owner == 1

\* the id of the one group
GroupId == "g1"

\* const group: Group = { id: groupId, name, ownerId: userId, createdAt }
Group(id, ownerId) == [type |-> "hash", id |-> id, ownerId |-> ownerId]

\* the first n elements, and the last n elements newest first
lastOf_first(list, n) == SubSeq(list, 1, IF Len(list) > n THEN n ELSE Len(list))

lastOf_newestFirst(list, n) ==
  [i \in 1..(IF Len(list) > n THEN n ELSE Len(list)) |-> list[Len(list) + 1 - i]]

\* the last n elements of a list: lrange(key, -n, -1), ltrim(key, -n, -1)
lastOf(list, n) == SubSeq(list, IF Len(list) > n THEN Len(list) - n + 1 ELSE 1, Len(list))

\* POST /api/groups/:id/tasks that writes without the membership check
groupUpsert_noGate(uid, hash, task) ==
  [isMember |-> uid \in members, hash |-> assign(hash, task.id :> task), out |-> <<task>>]

\* POST /api/groups/:id/tasks on the hash tasks:group:<gid>
groupUpsert(uid, hash, task) ==
  IF uid \in members
  THEN [isMember |-> TRUE, hash |-> assign(hash, task.id :> task), out |-> <<task>>]
  ELSE [isMember |-> FALSE, hash |-> hash, out |-> <<>>]

\* DELETE /api/groups/:id/tasks/:taskId
groupDelete(uid, hash, taskId) ==
  IF uid \in members
  THEN [isMember |-> TRUE, hash |-> [id \in DOMAIN hash \ {taskId} |-> hash[id]], out |-> <<>>]
  ELSE [isMember |-> FALSE, hash |-> hash, out |-> <<>>]

\* GET /api/groups/:id/tasks; vals is Object.values of the hash reply
groupList(uid, vals, order) ==
  IF uid \in members
  THEN [isMember |-> TRUE, out |-> groupTasksOf(vals, order)]
  ELSE [isMember |-> FALSE, out |-> <<>>]

\* the record of a group request
Asked(op, uid, reply) ==
  [op |-> op, uid |-> uid, isMember |-> reply.isMember, out |-> reply.out]

\* the request of a handler and the mutateGroupTasks() after it: the cache
\* takes the reply of a new GET, or [] when the fetcher fails
mutateGroupTasks(d, op, posted) ==
  /\ view = "group"
  /\ \E vals \in ObjectValues(posted.hash) :
       LET list == groupList(d, vals, orderGroup)
       IN /\ tasksGroup' = posted.hash
          /\ groupTasks' = [groupTasks EXCEPT ![d] = list.out]
          /\ Answer(<<Asked(op, d, posted), Asked("groupTasks", d, list)>>)
  /\ UNCHANGED <<acctVars, tasksKey, orderKey, isLoggedIn, personalTasks,
                 memberVars, orderGroup, chatKey, toasts>>

\* the fetch of a handler is rejected after mutateGroupTasks(optimistic,
\* false): handleToggleTask catches, calls mutateGroupTasks() and adds a toast
\* (the fetcher gives [] when its GET is rejected too); the other handlers
\* have no catch and leave the cache as it is
rejected(d, op, optimistic, catches) ==
  /\ view = "group" /\ FALSE \in Served
  /\ IF catches
     THEN /\ \E got \in BOOLEAN, vals \in ObjectValues(tasksGroup) :
               LET list == groupList(d, vals, orderGroup)
               IN /\ groupTasks' = [groupTasks EXCEPT ![d] = IF got THEN list.out ELSE <<>>]
                  /\ Answer(<<Failed(op), IF got THEN Asked("groupTasks", d, list)
                                                  ELSE Failed("groupTasks")>>)
          /\ toasts' = Append(toasts, "Failed to update task")
     ELSE /\ groupTasks' = [groupTasks EXCEPT ![d] = optimistic]
          /\ Answer(<<Failed(op)>>)
          /\ toasts' = toasts
  /\ UNCHANGED <<acctVars, tasksKey, orderKey, isLoggedIn, personalTasks,
                 memberVars, tasksGroup, orderGroup, chatKey>>

\* the options of the two useSWR hooks that matter when the page is hidden
\* or shown again; a hook that does not give one has the default of swr
SwrTasks_whenHidden == [refreshWhenHidden |-> TRUE, revalidateOnFocus |-> TRUE]

SwrTasks == [refreshWhenHidden |-> FALSE, revalidateOnFocus |-> TRUE]

SwrChat == [refreshWhenHidden |-> FALSE, revalidateOnFocus |-> TRUE]

\* the refresh of the SWR cache every 2 s
revalidate(d) ==
  /\ view = "group" /\ (visible[d] \/ SwrTasks.refreshWhenHidden)
  /\ \E vals \in ObjectValues(tasksGroup) :
       LET list == groupList(d, vals, orderGroup)
       IN /\ groupTasks' = [groupTasks EXCEPT ![d] = list.out]
          /\ Answer(<<Asked("groupTasks", d, list)>>)
  /\ UNCHANGED <<acctVars, tasksKey, orderKey, isLoggedIn, personalTasks,
                 memberVars, tasksGroup, orderGroup, chatKey, clock, toasts>>

\* handleToggleTask, view 'group'
handleToggleTask_group(d) ==
  /\ clock < MaxStamp
  /\ \E i \in DOMAIN groupTasks[d] :
       LET updatedTask == toggled(groupTasks[d][i], clock + 1)
       IN \/ mutateGroupTasks(d, "groupUpsert", groupUpsert(d, tasksGroup, updatedTask))
          \/ rejected(d, "groupUpsert", [groupTasks[d] EXCEPT ![i] = updatedTask], TRUE)
  /\ clock' = clock + 1

\* handleCreateTask, view 'group'
handleCreateTask_group(d) ==
  /\ clock < MaxStamp /\ Len(groupTasks[d]) < MaxTasks
  /\ \E formType \in FormTypes :
       LET newTask == Task(uuidv4(clock + 1), formType, clock + 1, 0, <<>>)
       IN \/ mutateGroupTasks(d, "groupUpsert", groupUpsert(d, tasksGroup, newTask))
          \/ rejected(d, "groupUpsert", Append(groupTasks[d], newTask), FALSE)
  /\ clock' = clock + 1

\* handleDeleteTask, view 'group'
handleDeleteTask_group(d) ==
  /\ \E i \in DOMAIN groupTasks[d] :
       LET newTasks == SelectSeq(groupTasks[d], LAMBDA t : t.id # groupTasks[d][i].id)
       IN \/ mutateGroupTasks(d, "groupDelete",
                              groupDelete(d, tasksGroup, groupTasks[d][i].id))
          \/ rejected(d, "groupDelete", newTasks, FALSE)
  /\ clock' = clock

\* removal of a log entry of a group counter, written like a toggle
handleDeleteLogEntry_group(d) ==
  /\ \E i \in DOMAIN groupTasks[d] :
       \E j \in DOMAIN logOf(groupTasks[d][i]) :
         mutateGroupTasks(d, "groupUpsert",
                          groupUpsert(d, tasksGroup,
                                      removeLogEntry(groupTasks[d][i],
                                                     logOf(groupTasks[d][i])[j].id)))
  /\ clock' = clock

\* POST /api/groups/:id/tasks/order
postGroupOrder(uid) ==
  /\ view = "group"
  /\ \E order \in RawOrders :
       /\ orderGroup' = IF uid \in members THEN order ELSE orderGroup
       /\ Answer(<<Asked("groupOrder", uid, [isMember |-> uid \in members, out |-> <<>>])>>)
  /\ UNCHANGED <<acctVars, tasksKey, orderKey, isLoggedIn, personalTasks,
                 memberVars, tasksGroup, chatKey, groupTasks, clock, toasts>>

\* GET /api/groups/:id/chat
getChat(uid) ==
  /\ view = "group"
  /\ Answer(<<Asked("chat", uid,
                    [isMember |-> uid \in members,
                     out |-> IF uid \in members THEN lastOf(chatKey, ChatPage) ELSE <<>>])>>)
  /\ UNCHANGED <<acctVars, tasksKey, orderKey, isLoggedIn, personalTasks,
                 memberVars, tasksGroup, orderGroup, chatKey, groupTasks, clock, toasts>>

\* POST /api/groups/:id/chat
postChat(uid) ==
  /\ view = "group" /\ clock < MaxStamp
  /\ LET msg == [id |-> uuidv4(clock + 1), sender |-> user[uid].username,
                 text |-> "hi", timestamp |-> clock + 1]
     IN /\ clock' = IF uid \in members THEN clock + 1 ELSE clock
        /\ chatKey' = IF uid \in members
                      THEN lastOf(Append(chatKey, msg), ChatKeep) ELSE chatKey
        /\ Answer(<<Asked("chatPost", uid,
                          [isMember |-> uid \in members,
                           out |-> IF uid \in members THEN <<msg>> ELSE <<>>])>>)
  /\ UNCHANGED <<acctVars, tasksKey, orderKey, isLoggedIn, personalTasks,
                 memberVars, tasksGroup, orderGroup, groupTasks, toasts>>

\* POST /api/groups/:id/invite, /accept and /kick: the member set and the
\* invites they leave
membership ==
  /\ view = "group"
  /\ \E uid \in Users, targetId \in Users :
       \/ /\ targetId \notin members                      \* invite
          /\ groupInvites' = groupInvites \cup {targetId}
          /\ invites' = invites \cup {targetId}
          /\ UNCHANGED <<members, userGroups>>
       \/ /\ uid \in invites                              \* accept
          /\ groupInvites' = groupInvites \ {uid} /\ invites' = invites \ {uid}
          /\ members' = members \cup {uid} /\ userGroups' = userGroups \cup {uid}
       \/ /\ uid = groupMeta.ownerId /\ targetId # uid    \* kick
          /\ members' = members \ {targetId} /\ userGroups' = userGroups \ {targetId}
          /\ UNCHANGED <<groupInvites, invites>>
  /\ Answer(<<[op |-> "membership"]>>)
  /\ UNCHANGED <<acctVars, groupMeta, tasksKey, orderKey, isLoggedIn, personalTasks,
                 tasksGroup, orderGroup, chatKey, groupTasks, clock, toasts>>

----------------------------------------------------------------------------
(* The specification of the task collections *)

\* the tasks of the seeds
T1 == Task("t1", "simple", 0, 0, <<>>)
T2 == Task("t2", "counter", 0, 1, <<LogEntry(0)>>)

\* the personal collection before the run: none, a hash of two tasks, a
\* legacy array of two tasks
PersonalSeeds ==
  {None, hashKey(hashUpdates(<<T1, T2>>)),
   stringKey(<<LegacyTask("t2", 0), LegacyTask("t1", 0)>>)}

\* the stores and the clients before the run
DataSeeds ==
  /\ deployed \in {"api", "srv"}
  /\ user = SesSeeds
  /\ username = UsernameIndexOf(SesSeeds)
  /\ email = EmailIndexOf(SesSeeds)
  /\ legacyUser = {}
  /\ reg = [r \in RegIds |-> IdleReg]
  /\ ses = [s \in SesIds |-> IdleSes]
  /\ claimants = [n \in DOMAIN username |-> {username[n]}]
  /\ changes = [u \in DOMAIN user |-> user[u].usernameChangeCount]
  /\ view \in (IF deployed = "api" THEN {"personal", "group"} ELSE {"personal"})
  /\ tasksKey \in (IF view = "personal" THEN PersonalSeeds ELSE {None})
  /\ orderKey = NoVal
  /\ groupMeta = (IF view = "group" THEN Group(GroupId, Owner) ELSE None)
  /\ members \in (IF view = "group" THEN {{Owner}, Users} ELSE {{}})
  /\ userGroups = members
  /\ groupInvites = {} /\ invites = {}
  /\ grp = <<>> /\ toasts = <<>>
  /\ tasksGroup \in (IF view = "group" THEN {<<>>, hashUpdates(<<T1, T2>>)} ELSE {<<>>})
  /\ orderGroup = NoVal /\ chatKey = <<>>
  /\ groupTasks = [d \in Clients |-> <<>>]
  /\ isLoggedIn = FALSE /\ personalTasks = <<>>
  /\ clock = 0 /\ resp = <<>> /\ prev = NoRequest
  /\ NoFlight

\* every fetch is served
InitData == DataSeeds /\ network = "up"

\* a fetch may be rejected
InitFlaky == DataSeeds /\ network = "flaky"

NextData ==
  \/ authMe
  \/ loadUser
  \/ handleToggleTask
  \/ handleCreateTask
  \/ handleDeleteTask
  \/ handleSetList
  \/ handleDeleteLogEntry
  \/ postUserData
  \/ \E d \in Clients :
       \/ revalidate(d)
       \/ handleToggleTask_group(d)
       \/ handleCreateTask_group(d)
       \/ handleDeleteTask_group(d)
       \/ handleDeleteLogEntry_group(d)
  \/ \E uid \in Users :
       \/ postGroupOrder(uid)
       \/ getChat(uid)
       \/ postChat(uid)
  \/ membership

SpecData == InitData /\ [][NextData]_vars

SpecFlaky == InitFlaky /\ [][NextData]_vars

----------------------------------------------------------------------------
(* Claims about the task collections, checked under SpecData *)

\* the list `out` holds every task of the hash h once and nothing else
EachOnce(out, h) ==
  /\ Len(out) = Cardinality(DOMAIN h)
  /\ \A id \in DOMAIN h : \E i \in DOMAIN out : out[i] = h[id]

\* C2: whatever creates, deletes, full saves and order saves came before,
\* and whether the stored order list is complete, holds stale or duplicate
\* ids, omits tasks or is missing, a task list returned by GetTasks (personal
\* collection, either build) or by the group task list holds every task
\* that is in the mapping exactly once and no other task.
C2_EveryTaskExactlyOnce ==
  \A k \in DOMAIN resp :
    /\ resp[k].op = "getTasks" => EachOnce(resp[k].out, fieldsOf(tasksKey))
    /\ (resp[k].op = "groupTasks" /\ resp[k].isMember)
          => EachOnce(resp[k].out, tasksGroup)

\* a read of the personal collection returned three tasks while the order
\* list names a task that does not exist and omits tasks that do
C2_Witness ==
  /\ resp # <<>> /\ resp[1].op = "getTasks"
  /\ orderKey = <<"t9", "t1">>
  /\ Len(resp[1].out) = 3

\* C3: a save of an empty task list without forceEmpty deletes nothing and
\* leaves the mapping unchanged, and the order list too unless the same
\* client action also posts an order; a save of an empty list with
\* forceEmpty leaves the collection without tasks, and a GetTasks that
\* follows it returns the empty list.
C3_EmptySaveGuard ==
  [][/\ \A k \in DOMAIN resp' :
          (resp'[k].op = "userData" /\ resp'[k].empty)
             => IF resp'[k].forceEmpty
                THEN fieldsOf(tasksKey') = <<>>
                ELSE /\ tasksKey' = tasksKey
                     /\ (\A j \in DOMAIN resp' : ~resp'[j].order) => orderKey' = orderKey
     /\ (prev'.op = "userData" /\ resp'[1].op = "getTasks") => resp'[1].out = <<>>
    ]_vars

\* the client still shows tasks it had saved, a forced empty save came, and
\* the read after it returned no task
C3_Witness ==
  /\ prev.op = "userData"
  /\ resp # <<>> /\ resp[1].op = "getTasks" /\ resp[1].out = <<>>
  /\ isLoggedIn /\ Len(personalTasks) > 1

\* C4: a request for the group's task list, a task upsert, an order save, a
\* task delete, a chat read or a chat post by a user who is not in the
\* member set when the request is served gets no task and no message, and
\* leaves the group's tasks, order list and chat as they were.
C4_NonMemberGate ==
  [][\A k \in DOMAIN resp' :
        ("uid" \in DOMAIN resp'[k] /\ resp'[k].uid \notin members)
           => /\ resp'[k].out = <<>>
              /\ tasksGroup' = tasksGroup
              /\ orderGroup' = orderGroup
              /\ chatKey' = chatKey
    ]_vars

\* user 2, who is not a member, sent an upsert to the group, which has
\* tasks, and was refused
C4_Witness ==
  /\ resp # <<>> /\ resp[1].op = "groupUpsert" /\ ~resp[1].isMember
  /\ tasksGroup # <<>> /\ 2 \notin members

\* C5: for every counter task, in the client's lists and in the stored
\* records of the personal and the group collection, count equals the
\* length of the log after every increment and every log-entry removal.
C5_CountIsLogLength ==
  \A t \in Range(personalTasks) \cup Range(fieldsOf(tasksKey)) \cup Range(tasksGroup)
             \cup UNION {Range(groupTasks[d]) : d \in DOMAIN groupTasks} :
    ("type" \in DOMAIN t /\ t.type = "counter") => countOf(t) = Len(logOf(t))

\* the stored counter "t2" was incremented and then lost its first log entry
C5_Witness ==
  /\ "t2" \in DOMAIN fieldsOf(tasksKey)
  /\ "type" \in DOMAIN fieldsOf(tasksKey)["t2"]
  /\ fieldsOf(tasksKey)["t2"].type = "counter"
  /\ fieldsOf(tasksKey)["t2"].count = 1
  /\ fieldsOf(tasksKey)["t2"].log = <<LogEntry(1)>>

\* C6: of two consecutive GetTasks calls on a collection stored as a legacy
\* array, the second returns the same tasks in the same order as the first
\* and finds the hash; after the first call the key holds the tasks of the
\* array by id and the order list is the order of the array.
C6_MigrationOnFirstRead ==
  (prev.op = "getTasks" /\ resp # <<>> /\ resp[1].op = "getTasks")
     => /\ resp[1].out = prev.out
        /\ resp[1].found = "hash"
        /\ fieldsOf(tasksKey) = hashUpdates(prev.out)
        /\ orderKey = ids(prev.out)

\* the tasks of the hash h that the order list names, in the order of the
\* list, each once; ids of no task are skipped
RECURSIVE Referenced(_, _, _)
Referenced(order, h, seen) ==
  IF order = <<>> \/ order = NoVal THEN <<>>
  ELSE IF Head(order) \in DOMAIN h \ seen
       THEN <<h[Head(order)]>> \o Referenced(Tail(order), h, seen \cup {Head(order)})
       ELSE Referenced(Tail(order), h, seen)

\* the list `out` is the tasks the order list names followed by the other
\* tasks of h by ascending createdAt
OrderThenCreation(out, order, h) ==
  LET head == Referenced(order, h, {})
      rest == SubSeq(out, Len(head) + 1, Len(out))
  IN /\ Len(out) = Cardinality(DOMAIN h)
     /\ SubSeq(out, 1, Len(head)) = head
     /\ Range(rest) = Range(h) \ Range(head)
     /\ \A i, j \in DOMAIN rest : i < j => rest[i].createdAt <= rest[j].createdAt

\* C11: a read of a collection held as a mapping (GetTasks of the personal
\* collection, the task list of the group) returns first the tasks the
\* stored order list names, in the order of the list and without the ids of
\* no task, then the tasks the list does not name by ascending creation
\* timestamp.
C11_OrderThenCreation ==
  [][\A k \in DOMAIN resp' :
        /\ (resp'[k].op = "getTasks" /\ resp'[k].found = "hash")
              => OrderThenCreation(resp'[k].out, orderKey, fieldsOf(tasksKey'))
        /\ (resp'[k].op = "groupTasks" /\ resp'[k].isMember)
              => OrderThenCreation(resp'[k].out, orderGroup', tasksGroup')
    ]_vars

\* t.type || 'simple'
kindOf(t) == IF "type" \in DOMAIN t THEN t.type ELSE "simple"

\* the task `read` is the task `sent`, field by field
SameTask(read, sent) ==
  /\ read.id = sent.id
  /\ kindOf(read) = kindOf(sent)
  /\ read.isCompleted = sent.isCompleted
  /\ countOf(read) = countOf(sent)
  /\ logOf(read) = logOf(sent)

\* C12: after a save of a non-empty task list, served alone, the ids of the
\* stored mapping are the ids of the list, and a GetTasks returns every task
\* of the list with the kind, completion, count and log it was sent with.
C12_SaveThenRead ==
  [][\A k \in DOMAIN resp' :
        (resp'[k].op = "userData" /\ resp'[k].tasks # <<>>)
           => /\ DOMAIN fieldsOf(tasksKey') = Range(ids(resp'[k].tasks))
              /\ \A vals \in ObjectValues(fieldsOf(tasksKey')) :
                   LET out == IF deployed = "srv"
                              THEN getTasks_srv(tasksKey', vals, orderKey').out
                              ELSE getTasks(tasksKey', vals, orderKey').out
                   IN \A i \in DOMAIN resp'[k].tasks :
                        \E j \in DOMAIN out : SameTask(out[j], resp'[k].tasks[i])
    ]_vars

\* C13: when the client's delete flow removes the last task of the personal
\* list, the stored collection is left without tasks; a save of an empty
\* list without forceEmpty leaves the stored collection as it was.
C13_DeleteLastTask ==
  [][/\ (/\ isLoggedIn /\ Len(personalTasks) = 1 /\ personalTasks' = <<>>
         /\ resp' # <<>> /\ resp'[1].op = "userData" /\ resp'[1].empty)
           => fieldsOf(tasksKey') = <<>>
     /\ \A k \in DOMAIN resp' :
          (resp'[k].op = "userData" /\ resp'[k].empty /\ ~resp'[k].forceEmpty)
             => tasksKey' = tasksKey
    ]_vars

(* A claim about rejected requests, checked under SpecFlaky *)

\* C14: when the write request of an optimistic client mutation (toggle or
\* increment, create, delete, on the personal board or on a group board) is
\* rejected, the client's task list is again what it was before the
\* mutation and a failure notice has been added.
C14_RollbackOnFailedWrite ==
  [][(resp' # <<>> /\ resp'[1].op = "failed")
        => /\ personalTasks' = personalTasks
           /\ groupTasks' = groupTasks
           /\ Len(toasts') > Len(toasts)
    ]_vars

----------------------------------------------------------------------------
(* Group membership: the endpoints of src/api/index.ts that create and     *)
(* delete the group and change its members and invites.  Every `await` of  *)
(* a handler (a command or a pipeline) is one step; `grp` is the bag of    *)
(* the requests in flight, each with the await it has reached and the      *)
(* locals it holds.  `resp` holds the reply of the request a step answers. *)

\* number of group requests in flight at a time
NGrp == 2

\* a request before its first await
IdleGrp == [pc |-> "idle", op |-> "none", uid |-> 0, username |-> <<>>, targetId |-> 0,
            mids |-> {}, iids |-> {}]

\* req.body.username of an invite: missing, a name of user 1 in another
\* case, the name of user 2, a name of no user
InviteNames == {<<>>, Name_Alice, Name_bob, Name_carol}

\* the variables no group endpoint writes
aloofVars == <<deployed, username, email, user, legacyUser, reg, ses, claimants, changes,
               tasksKey, orderKey, view, isLoggedIn, personalTasks, groupTasks, toasts,
               network, flightVars, prev>>

\* the keys of the group and the indexes of the users
storeVars == <<memberVars, tasksGroup, orderGroup, chatKey>>

\* another request can be taken
Free == BagCardinality(grp) < NGrp

\* the request r goes on to its next await as rec
GrpStep(r, rec) == grp' = (grp (-) SetToBag({r})) (+) SetToBag({rec}) /\ resp' = <<>>

\* the request r is answered
GrpDone(r, op, uid, targetId, status) ==
  /\ grp' = grp (-) SetToBag({r})
  /\ resp' = <<[op |-> op, uid |-> uid, targetId |-> targetId, status |-> status]>>

\* the invite r is answered; the handler never reads the requester
InviteDone(r, name, targetId, status) ==
  /\ grp' = grp (-) SetToBag({r})
  /\ resp' = <<[op |-> "invite", username |-> name, targetId |-> targetId,
                status |-> status]>>

\* the checks of POST /api/groups/:id/kick on the reply of hgetall: the
\* status it returns with, or 0 when the request goes on
kickGate_noOwner(meta, requesterId, targetId) ==
  IF meta.type = "none" THEN 404
  ELSE IF targetId = requesterId THEN 400
  ELSE 0

kickGate(meta, requesterId, targetId) ==
  IF meta.type = "none" THEN 404
  ELSE IF meta.ownerId # requesterId THEN 403
  ELSE IF targetId = requesterId THEN 400
  ELSE 0

\* the checks of POST /api/groups/:id/leave
leaveGate_noOwner(meta, requesterId) ==
  IF meta.type = "none" THEN 404 ELSE 0

leaveGate(meta, requesterId) ==
  IF meta.type = "none" THEN 404
  ELSE IF meta.ownerId = requesterId THEN 400
  ELSE 0

\* the checks of DELETE /api/groups/:id
deleteGate(meta, requesterId) ==
  IF meta.type = "none" THEN 404
  ELSE IF meta.ownerId # requesterId THEN 403
  ELSE 0

\* the check of POST /api/groups/:id/accept on the reply of sismember
acceptGate_noInvite(hasInvite) == 0

acceptGate(hasInvite) == IF ~hasInvite THEN 400 ELSE 0

\* the check of POST /api/groups/:id/invite on the reply of sismember
inviteGate_noMember(isMember) == 0

inviteGate(isMember) == IF isMember THEN 409 ELSE 0

\* POST /api/groups: the pipeline that writes the meta hash, the member set
\* and the creator's group index; groupId = uuidv4() is an id never drawn
createGroup ==
  /\ Free /\ clock = 0
  /\ \E uid \in Users :
       /\ groupMeta' = Group(GroupId, uid)
       /\ members' = members \cup {uid}
       /\ userGroups' = userGroups \cup {uid}
       /\ GrpDone(IdleGrp, "createGroup", uid, 0, 201)
  /\ clock' = clock + 1
  /\ UNCHANGED <<aloofVars, groupInvites, invites, tasksGroup, orderGroup, chatKey>>

\* invite: `if (!username) return 400`, then
\* `const targetId = await redis.get(`username:${username.toLowerCase()}`)`
invite_getTarget ==
  /\ Free /\ clock > 0
  /\ \E name \in InviteNames :
       IF name = <<>> THEN InviteDone(IdleGrp, name, 0, 400)
       ELSE IF ~Has(username, toLowerCase(name)) THEN InviteDone(IdleGrp, name, 0, 404)
       ELSE GrpStep(IdleGrp, [IdleGrp EXCEPT !.pc = "isMember", !.op = "invite",
                                             !.username = name,
                                             !.targetId = username[toLowerCase(name)]])
  /\ UNCHANGED <<aloofVars, storeVars, clock>>

\* invite: `const isMember = await redis.sismember(members, targetId)`
invite_isMember ==
  /\ \E r \in BagToSet(grp) :
       /\ r.pc = "isMember"
       /\ LET status == inviteGate(r.targetId \in members)
          IN IF status # 0 THEN InviteDone(r, r.username, r.targetId, status)
             ELSE GrpStep(r, [r EXCEPT !.pc = "sadd"])
  /\ UNCHANGED <<aloofVars, storeVars, clock>>

\* invite: the pipeline of the two sadd
invite_sadd ==
  /\ \E r \in BagToSet(grp) :
       /\ r.pc = "sadd"
       /\ groupInvites' = groupInvites \cup {r.targetId}
       /\ invites' = invites \cup {r.targetId}
       /\ InviteDone(r, r.username, r.targetId, 200)
  /\ UNCHANGED <<aloofVars, groupMeta, members, userGroups, tasksGroup, orderGroup,
                 chatKey, clock>>

\* accept: `const hasInvite = await redis.sismember(`user:${userId}:invites`, groupId)`
accept_hasInvite ==
  /\ Free /\ clock > 0
  /\ \E uid \in Users :
       LET status == acceptGate(uid \in invites)
       IN IF status # 0 THEN GrpDone(IdleGrp, "accept", uid, 0, status)
          ELSE GrpStep(IdleGrp, [IdleGrp EXCEPT !.pc = "accept", !.op = "accept",
                                                !.uid = uid])
  /\ UNCHANGED <<aloofVars, storeVars, clock>>

\* accept: the pipeline of the two srem and the two sadd
accept_exec ==
  /\ \E r \in BagToSet(grp) :
       /\ r.pc = "accept"
       /\ groupInvites' = groupInvites \ {r.uid}
       /\ invites' = invites \ {r.uid}
       /\ members' = members \cup {r.uid}
       /\ userGroups' = userGroups \cup {r.uid}
       /\ GrpDone(r, "accept", r.uid, 0, 200)
  /\ UNCHANGED <<aloofVars, groupMeta, tasksGroup, orderGroup, chatKey, clock>>

\* POST /api/groups/:id/decline: the pipeline of the two srem
decline ==
  /\ Free /\ clock > 0
  /\ \E uid \in Users :
       /\ groupInvites' = groupInvites \ {uid}
       /\ invites' = invites \ {uid}
       /\ GrpDone(IdleGrp, "decline", uid, 0, 200)
  /\ UNCHANGED <<aloofVars, groupMeta, members, userGroups, tasksGroup, orderGroup,
                 chatKey, clock>>

\* kick: `const groupMeta = await redis.hgetall(meta)` and the checks on it
kick_getMeta ==
  /\ Free /\ clock > 0
  /\ \E uid \in Users, targetId \in Users :
       LET status == kickGate(groupMeta, uid, targetId)
       IN IF status # 0 THEN GrpDone(IdleGrp, "kick", uid, targetId, status)
          ELSE GrpStep(IdleGrp, [IdleGrp EXCEPT !.pc = "kick", !.op = "kick", !.uid = uid,
                                                !.targetId = targetId])
  /\ UNCHANGED <<aloofVars, storeVars, clock>>

\* kick: the pipeline of the two srem
kick_exec ==
  /\ \E r \in BagToSet(grp) :
       /\ r.pc = "kick"
       /\ members' = members \ {r.targetId}
       /\ userGroups' = userGroups \ {r.targetId}
       /\ GrpDone(r, "kick", r.uid, r.targetId, 200)
  /\ UNCHANGED <<aloofVars, groupMeta, groupInvites, invites, tasksGroup, orderGroup,
                 chatKey, clock>>

\* leave: `const groupMeta = await redis.hgetall(meta)` and the checks on it
leave_getMeta ==
  /\ Free /\ clock > 0
  /\ \E uid \in Users :
       LET status == leaveGate(groupMeta, uid)
       IN IF status # 0 THEN GrpDone(IdleGrp, "leave", uid, 0, status)
          ELSE GrpStep(IdleGrp, [IdleGrp EXCEPT !.pc = "leave", !.op = "leave",
                                                !.uid = uid])
  /\ UNCHANGED <<aloofVars, storeVars, clock>>

\* leave: the pipeline of the two srem
leave_exec ==
  /\ \E r \in BagToSet(grp) :
       /\ r.pc = "leave"
       /\ members' = members \ {r.uid}
       /\ userGroups' = userGroups \ {r.uid}
       /\ GrpDone(r, "leave", r.uid, 0, 200)
  /\ UNCHANGED <<aloofVars, groupMeta, groupInvites, invites, tasksGroup, orderGroup,
                 chatKey, clock>>

\* delete: `const groupMeta = await redis.hgetall(meta)` and the checks on it
deleteGroup_getMeta ==
  /\ Free /\ clock > 0
  /\ \E uid \in Users :
       LET status == deleteGate(groupMeta, uid)
       IN IF status # 0 THEN GrpDone(IdleGrp, "deleteGroup", uid, 0, status)
          ELSE GrpStep(IdleGrp, [IdleGrp EXCEPT !.pc = "smembers", !.op = "deleteGroup",
                                                !.uid = uid])
  /\ UNCHANGED <<aloofVars, storeVars, clock>>

\* delete: `const members = await redis.smembers(`group:${groupId}:members`)`
deleteGroup_members ==
  /\ \E r \in BagToSet(grp) :
       r.pc = "smembers" /\ GrpStep(r, [r EXCEPT !.pc = "sinvites", !.mids = members])
  /\ UNCHANGED <<aloofVars, storeVars, clock>>

\* delete: `const invites = await redis.smembers(`group:${groupId}:invites`)`
deleteGroup_invites ==
  /\ \E r \in BagToSet(grp) :
       r.pc = "sinvites" /\ GrpStep(r, [r EXCEPT !.pc = "del", !.iids = groupInvites])
  /\ UNCHANGED <<aloofVars, storeVars, clock>>

\* delete: the pipeline of the srem per member and per invitee read, and
\* of the del of meta, members, invites, tasks:group:<gid> and the chat list
deleteGroup_exec ==
  /\ \E r \in BagToSet(grp) :
       /\ r.pc = "del"
       /\ userGroups' = userGroups \ r.mids
       /\ invites' = invites \ r.iids
       /\ GrpDone(r, "deleteGroup", r.uid, 0, 200)
  /\ groupMeta' = None
  /\ members' = {}
  /\ groupInvites' = {}
  /\ tasksGroup' = <<>>
  /\ chatKey' = <<>>
  /\ UNCHANGED <<aloofVars, orderGroup, clock>>

\* before the requests: no group yet, or the group of user 1 in use, with
\* two tasks, an order list and a chat message
InitGroups ==
  /\ deployed = "api"
  /\ user = SesSeeds
  /\ username = UsernameIndexOf(SesSeeds)
  /\ email = EmailIndexOf(SesSeeds)
  /\ legacyUser = {}
  /\ reg = [r \in RegIds |-> IdleReg]
  /\ ses = [s \in SesIds |-> IdleSes]
  /\ claimants = [n \in DOMAIN username |-> {username[n]}]
  /\ changes = [u \in DOMAIN user |-> user[u].usernameChangeCount]
  /\ tasksKey = None /\ orderKey = NoVal
  /\ view = "group" /\ isLoggedIn = FALSE /\ personalTasks = <<>>
  /\ groupTasks = [d \in Clients |-> <<>>] /\ toasts = <<>> /\ network = "up"
  /\ NoFlight
  /\ grp = EmptyBag
  /\ groupInvites = {} /\ invites = {}
  /\ resp = <<>> /\ prev = NoRequest
  /\ \/ /\ clock = 0
        /\ groupMeta = None /\ members = {} /\ userGroups = {}
        /\ tasksGroup = <<>> /\ orderGroup = NoVal /\ chatKey = <<>>
     \/ /\ clock = 1
        /\ groupMeta = Group(GroupId, Owner) /\ members = {Owner} /\ userGroups = {Owner}
        /\ tasksGroup = hashUpdates(<<T1, T2>>) /\ orderGroup = <<"t2", "t1">>
        /\ chatKey = <<[id |-> "m1", sender |-> Name_alice, text |-> "hi", timestamp |-> 0]>>

\* requests interleave between their awaits
NextGroups ==
  \/ createGroup
  \/ invite_getTarget
  \/ invite_isMember
  \/ invite_sadd
  \/ accept_hasInvite
  \/ accept_exec
  \/ decline
  \/ kick_getMeta
  \/ kick_exec
  \/ leave_getMeta
  \/ leave_exec
  \/ deleteGroup_getMeta
  \/ deleteGroup_members
  \/ deleteGroup_invites
  \/ deleteGroup_exec

SpecGroups == InitGroups /\ [][NextGroups]_vars

\* requests are served one at a time: a request is taken when none is in
\* flight, and the one in flight is the only one to step
NextGroupsSerial ==
  /\ NextGroups
  /\ IF grp = EmptyBag THEN TRUE ELSE grp' # grp /\ BagCardinality(grp') <= 1

SpecGroupsSerial == InitGroups /\ [][NextGroupsSerial]_vars

----------------------------------------------------------------------------
(* Claims about group membership *)

\* C15: under any interleaving of invite, accept, decline, kick and leave
\* requests, no user is in the invite set and in the member set of the
\* group at once.
C15_InviteeOrMember == members \cap groupInvites = {}

\* C16: while the group's metadata is stored, its owner is in the member
\* set, under any interleaving of create, invite, accept, decline, kick,
\* leave and delete requests by any users; a leave by the owner and a kick
\* that targets the owner do not remove the owner.
C16_OwnerIsMember == groupMeta.type # "none" => groupMeta.ownerId \in members

\* the owner asked to leave a group of two members and was refused
C16_Witness ==
  /\ resp # <<>> /\ resp[1].op = "leave" /\ resp[1].status = 400
  /\ groupMeta.type # "none" /\ resp[1].uid = groupMeta.ownerId
  /\ Cardinality(members) = 2

\* C17: once a delete of the group by its owner has been answered, served
\* alone, the group's metadata, member set, invite set, task mapping, task
\* order list and chat log are absent and no user's group index or invite
\* index holds the group.
C17_DeleteLeavesNothing ==
  [][(resp' # <<>> /\ resp'[1].op = "deleteGroup" /\ resp'[1].status = 200)
        => /\ groupMeta' = None /\ members' = {} /\ groupInvites' = {}
           /\ tasksGroup' = <<>> /\ orderGroup' = NoVal /\ chatKey' = <<>>
           /\ userGroups' = {} /\ invites' = {}
    ]_vars

\* C18: a kick or a delete requested by a user who is not the owner of the
\* stored group is answered 403, a kick by the owner that targets the owner
\* is answered 400, and neither writes: the member set, the invite set, the
\* users' group and invite indexes, the tasks, the order list and the chat
\* are as before.
C18_RefusedWithoutWrite ==
  [][\A k \in DOMAIN resp' :
        (resp'[k].op \in {"kick", "deleteGroup"} /\ groupMeta.type # "none")
           => /\ resp'[k].uid # groupMeta.ownerId
                 => resp'[k].status = 403 /\ UNCHANGED storeVars
              /\ (/\ resp'[k].op = "kick"
                  /\ resp'[k].uid = groupMeta.ownerId
                  /\ resp'[k].targetId = resp'[k].uid)
                 => resp'[k].status = 400 /\ UNCHANGED storeVars
    ]_vars

\* user 2, a member who is not the owner, asked to kick the owner and was
\* refused
C18_Witness ==
  /\ resp # <<>> /\ resp[1].op = "kick" /\ resp[1].status = 403
  /\ groupMeta.type # "none" /\ resp[1].targetId = groupMeta.ownerId
  /\ resp[1].uid \in members

----------------------------------------------------------------------------
(* The chat of the group: GET and POST /api/groups/:id/chat of             *)
(* src/api/index.ts, one step per `await`.  The requests in flight are in  *)
(* `grp`; `appended` lists the id of every message pushed so far.          *)

\* number of chat messages posted in a run
MaxPosts == 2

\* a message that names the owner of the group as its sender
ChatMessage_byOwner(n, sender) ==
  [id |-> n, sender |-> SesSeeds[Owner].username, text |-> "hi", timestamp |-> n]

\* const msg: ChatMessage, with the n-th uuidv4() and Date.now()
ChatMessage(n, sender) == [id |-> n, sender |-> sender, text |-> "hi", timestamp |-> n]

\* a chat request before its first await
IdleChat == [pc |-> "idle", op |-> "none", uid |-> 0, msg |-> ChatMessage(0, <<>>)]

\* a log of n messages of the owner, written before the run
ChatLog(n) == [i \in 1..n |-> ChatMessage(-i, Name_alice)]

\* the ids of a list of messages
idsOf(list) == [i \in DOMAIN list |-> list[i].id]

\* the chat request r is answered with out
ChatDone(r, op, uid, status, out) ==
  /\ grp' = grp (-) SetToBag({r})
  /\ resp' = <<[op |-> op, uid |-> uid, status |-> status, out |-> out]>>

\* the variables no chat endpoint writes
chatFrame == <<deployed, username, email, user, legacyUser, reg, ses, claimants, changes,
               tasksKey, orderKey, view, isLoggedIn, personalTasks, groupTasks, toasts,
               network, prev, memberVars, tasksGroup, orderGroup, pollVars, lgn, avail, job>>

\* GET chat: `const isMember = await redis.sismember(members, userId)`;
\* `if (!isMember) return res.json([])`
chatGet_isMember ==
  /\ Free
  /\ \E uid \in Users :
       IF uid \notin members THEN ChatDone(IdleChat, "chat", uid, 200, <<>>)
       ELSE GrpStep(IdleChat, [IdleChat EXCEPT !.pc = "lrange", !.op = "chat", !.uid = uid])
  /\ UNCHANGED <<chatFrame, chatKey, appended, clock>>

\* GET chat: `const raw = await redis.lrange(key, -100, -1)` and the reply;
\* every element is the JSON of a message, so none is filtered out
chatGet_lrange ==
  /\ \E r \in BagToSet(grp) :
       r.pc = "lrange" /\ ChatDone(r, "chat", r.uid, 200, lastOf(chatKey, ChatPage))
  /\ UNCHANGED <<chatFrame, chatKey, appended, clock>>

\* POST chat: `const isMember = await redis.sismember(members, req.user.uid)`
chatPost_isMember ==
  /\ Free /\ clock < MaxPosts
  /\ \E uid \in Users :
       IF uid \notin members THEN ChatDone(IdleChat, "chatPost", uid, 403, <<>>)
       ELSE GrpStep(IdleChat, [IdleChat EXCEPT !.pc = "getUser", !.op = "chatPost",
                                               !.uid = uid])
  /\ UNCHANGED <<chatFrame, chatKey, appended, clock>>

\* POST chat: `const user = await redis.get(`user:${req.user.uid}`)` and msg
chatPost_getUser ==
  /\ \E r \in BagToSet(grp) :
       /\ r.pc = "getUser"
       /\ LET senderName == IF r.uid \in DOMAIN user THEN user[r.uid].username
                            ELSE <<"U","n","k","n","o","w","n">>
          IN GrpStep(r, [r EXCEPT !.pc = "rpush", !.msg = ChatMessage(clock + 1, senderName)])
  /\ clock' = clock + 1
  /\ UNCHANGED <<chatFrame, chatKey, appended>>

\* POST chat: `await redis.rpush(key, JSON.stringify(msg))`
chatPost_rpush ==
  /\ \E r \in BagToSet(grp) :
       /\ r.pc = "rpush"
       /\ chatKey' = Append(chatKey, r.msg)
       /\ appended' = Append(appended, r.msg.id)
       /\ GrpStep(r, [r EXCEPT !.pc = "ltrim"])
  /\ UNCHANGED <<chatFrame, clock>>

\* POST chat: `await redis.ltrim(key, -500, -1)` and the reply
chatPost_ltrim ==
  /\ \E r \in BagToSet(grp) :
       /\ r.pc = "ltrim"
       /\ ChatDone(r, "chatPost", r.uid, 200, <<r.msg>>)
  /\ chatKey' = lastOf(chatKey, ChatKeep)
  /\ UNCHANGED <<chatFrame, appended, clock>>

\* the group of user 1 alone with a short chat list, or the group of both
\* users with a chat list of the length it is trimmed to
InitChat ==
  /\ deployed = "api"
  /\ user = SesSeeds
  /\ username = UsernameIndexOf(SesSeeds)
  /\ email = EmailIndexOf(SesSeeds)
  /\ legacyUser = {}
  /\ reg = [r \in RegIds |-> IdleReg]
  /\ ses = [s \in SesIds |-> IdleSes]
  /\ claimants = [n \in DOMAIN username |-> {username[n]}]
  /\ changes = [u \in DOMAIN user |-> user[u].usernameChangeCount]
  /\ tasksKey = None /\ orderKey = NoVal
  /\ view = "group" /\ isLoggedIn = FALSE /\ personalTasks = <<>>
  /\ groupTasks = [d \in Clients |-> <<>>] /\ toasts = <<>> /\ network = "up"
  /\ grp = EmptyBag
  /\ groupMeta = Group(GroupId, Owner)
  /\ \/ members = {Owner} /\ chatKey = ChatLog(2)
     \/ members = Users /\ chatKey = ChatLog(ChatKeep)
  /\ userGroups = members
  /\ groupInvites = {} /\ invites = {}
  /\ tasksGroup = <<>> /\ orderGroup = NoVal
  /\ appended = idsOf(chatKey) /\ NoPoll /\ lgn = [l \in LogIds |-> IdleLog] /\ avail = <<>>
  /\ job = [j \in JobIds |-> IdleJob]
  /\ clock = 0 /\ resp = <<>> /\ prev = NoRequest

NextChat ==
  \/ chatGet_isMember
  \/ chatGet_lrange
  \/ chatPost_isMember
  \/ chatPost_getUser
  \/ chatPost_rpush
  \/ chatPost_ltrim

SpecChat == InitChat /\ [][NextChat]_vars

----------------------------------------------------------------------------
(* Claims about the chat, checked under SpecChat *)

\* C21: when a post of a member is answered, whatever other posts are in
\* flight, the stored chat list holds at most 500 messages and they are the
\* last messages pushed, in the order they were pushed.
C21_LogKeepsLast500 ==
  [][(resp' # <<>> /\ resp'[1].op = "chatPost" /\ resp'[1].status = 200)
        => LET n == IF Len(appended') < ChatKeep THEN Len(appended') ELSE ChatKeep
           IN /\ Len(chatKey') = n
              /\ idsOf(chatKey') = SubSeq(appended', Len(appended') - n + 1, Len(appended'))
    ]_vars

\* a post is answered when more than 500 messages have been pushed and
\* another post has pushed its message and has not trimmed the list yet
C21_Witness ==
  /\ resp # <<>> /\ resp[1].op = "chatPost" /\ resp[1].status = 200
  /\ Len(appended) > ChatKeep + 1
  /\ \E r \in BagToSet(grp) : r.pc = "ltrim"

\* C22: a chat read by a member is answered with the last 100 messages
\* pushed, or all of them when they are fewer, oldest first.
C22_ReadLast100 ==
  [][\A k \in DOMAIN resp' :
        (resp'[k].op = "chat" /\ resp'[k].uid \in members)
           => LET n == IF Len(chatKey) < ChatPage THEN Len(chatKey) ELSE ChatPage
              IN /\ Len(resp'[k].out) = n
                 /\ idsOf(resp'[k].out) = SubSeq(appended, Len(appended) - n + 1, Len(appended))
    ]_vars

\* a read of a list of more than 100 messages is answered while a post has
\* pushed its message and has not trimmed the list yet
C22_Witness ==
  /\ resp # <<>> /\ resp[1].op = "chat" /\ resp[1].uid \in members
  /\ Len(resp[1].out) = ChatPage /\ Len(chatKey) > ChatKeep

----------------------------------------------------------------------------
(* Polling: the two useSWR hooks of a client in view 'group' (the task     *)
(* list of src/App.tsx, the chat of ChatPanel), the page being hidden and  *)
(* shown again, and the writes of other users between the polls.           *)

\* the reply of GET /api/groups/:id/chat, and [] from the fetcher when the
\* user is no member
chatPage(d) == IF d \in members THEN lastOf(chatKey, ChatPage) ELSE <<>>

\* what no poll and no change of the page writes
pollFrame == <<deployed, username, email, user, legacyUser, reg, ses, grp, claimants,
               changes, view, network, appended, lgn, avail, job, tasksKey, orderKey, isLoggedIn,
               personalTasks, memberVars, tasksGroup, orderGroup, chatKey, clock, toasts>>

\* the page of client d is hidden
hide(d) ==
  /\ visible[d]
  /\ visible' = [visible EXCEPT ![d] = FALSE]
  /\ Answer(<<>>)
  /\ UNCHANGED <<pollFrame, groupTasks, messages>>

\* the page of client d is shown again: each hook with revalidateOnFocus
\* fetches at once
focus(d) ==
  /\ ~visible[d]
  /\ visible' = [visible EXCEPT ![d] = TRUE]
  /\ \E vals \in ObjectValues(tasksGroup) :
       LET list == groupList(d, vals, orderGroup)
           page == [isMember |-> d \in members, out |-> chatPage(d)]
       IN /\ groupTasks' = IF SwrTasks.revalidateOnFocus
                           THEN [groupTasks EXCEPT ![d] = list.out] ELSE groupTasks
          /\ messages' = IF SwrChat.revalidateOnFocus
                         THEN [messages EXCEPT ![d] = page.out] ELSE messages
          /\ Answer((IF SwrTasks.revalidateOnFocus
                     THEN <<Asked("groupTasks", d, list)>> ELSE <<>>)
                    \o (IF SwrChat.revalidateOnFocus
                        THEN <<Asked("chat", d, page)>> ELSE <<>>))
  /\ UNCHANGED pollFrame

\* the refresh of the chat cache every 1.5 s
refreshChat(d) ==
  /\ view = "group" /\ (visible[d] \/ SwrChat.refreshWhenHidden)
  /\ messages' = [messages EXCEPT ![d] = chatPage(d)]
  /\ Answer(<<Asked("chat", d, [isMember |-> d \in members, out |-> chatPage(d)])>>)
  /\ UNCHANGED <<pollFrame, visible, groupTasks>>

\* handleSetList, view 'group': a drag that reverses the list;
\* mutateGroupTasks(newList, false) sets the cache and sends no request
handleSetList_group(d) ==
  /\ view = "group" /\ visible[d] /\ Len(groupTasks[d]) > 1
  /\ groupTasks' = [groupTasks EXCEPT ![d] = reversed(groupTasks[d])]
  /\ Answer(<<>>)
  /\ UNCHANGED <<pollFrame, visible, messages>>

\* the group of user 1 with two tasks and a chat list of 100 messages;
\* user 2, whose client polls, is a member or not
InitPoll ==
  /\ deployed = "api"
  /\ user = SesSeeds
  /\ username = UsernameIndexOf(SesSeeds)
  /\ email = EmailIndexOf(SesSeeds)
  /\ legacyUser = {}
  /\ reg = [r \in RegIds |-> IdleReg]
  /\ ses = [s \in SesIds |-> IdleSes]
  /\ claimants = [n \in DOMAIN username |-> {username[n]}]
  /\ changes = [u \in DOMAIN user |-> user[u].usernameChangeCount]
  /\ tasksKey = None /\ orderKey = NoVal
  /\ view = "group" /\ isLoggedIn = FALSE /\ personalTasks = <<>>
  /\ groupTasks = [d \in Clients |-> <<>>] /\ toasts = <<>> /\ network = "up"
  /\ grp = EmptyBag
  /\ groupMeta = Group(GroupId, Owner)
  /\ members \in {{Owner}, Users} /\ userGroups = members
  /\ groupInvites = {} /\ invites = {}
  /\ tasksGroup = hashUpdates(<<T1, T2>>) /\ orderGroup = NoVal
  /\ chatKey = [i \in 1..ChatPage |->
                  [id |-> ToString(i), sender |-> Name_alice, text |-> "hi",
                   timestamp |-> i - ChatPage]]
  /\ NoFlight
  /\ clock = 0 /\ resp = <<>> /\ prev = NoRequest

NextPoll ==
  \/ \E d \in Clients :
       \/ hide(d)
       \/ focus(d)
       \/ revalidate(d)
       \/ refreshChat(d)
       \/ handleSetList_group(d)
  \/ \E uid \in Users :
       \/ postGroupOrder(uid)
       \/ postChat(uid)

SpecPoll == InitPoll /\ [][NextPoll]_vars

\* the timers of swr go on firing
SpecPollFair ==
  SpecPoll /\ \A d \in Clients : WF_vars(revalidate(d)) /\ WF_vars(refreshChat(d))

----------------------------------------------------------------------------
(* A claim about polling, checked under SpecPollFair *)

\* the replies GET /api/groups/:id/tasks can give to client d now
tasksPages(d) == {groupList(d, vals, orderGroup).out : vals \in ObjectValues(tasksGroup)}

\* a step that changes what is stored for the group
groupWritten == <<memberVars, tasksGroup, orderGroup, chatKey>>' #
                <<memberVars, tasksGroup, orderGroup, chatKey>>

\* no poll is sent from a hidden page, and a page that is shown again polls
\* both lists at once
pollsWhenVisible ==
  [][/\ \A k \in DOMAIN resp' :
          resp'[k].op \in {"groupTasks", "chat"} => visible'[resp'[k].uid]
     /\ \A d \in Clients :
          (~visible[d] /\ visible'[d])
             => /\ \E k \in DOMAIN resp' : resp'[k].op = "groupTasks" /\ resp'[k].uid = d
                /\ \E k \in DOMAIN resp' : resp'[k].op = "chat" /\ resp'[k].uid = d
    ]_vars

----------------------------------------------------------------------------
(* A claim about reordering, checked under SpecPoll (group board); its     *)
(* formula also speaks of the personal board of SpecData                   *)

\* newList holds the tasks of list in another order
reordered(list, newList) ==
  /\ newList # list /\ Len(newList) = Len(list)
  /\ \A t \in Range(list) :
       Cardinality({i \in DOMAIN list : list[i] = t})
         = Cardinality({i \in DOMAIN newList : newList[i] = t})

\* C24: a drag that reorders the client's list (and is no reply of a read)
\* sends an order-only write and no request that carries tasks, and leaves
\* the stored order list equal to the ids of the new list, on the personal
\* board and on a group board.
C24_ReorderWritesOrder ==
  [][/\ (/\ reordered(personalTasks, personalTasks')
         /\ \A k \in DOMAIN resp' : resp'[k].op # "getTasks")
          => /\ resp' # <<>>
             /\ \A k \in DOMAIN resp' :
                  resp'[k].op = "userData" /\ resp'[k].order
                    /\ resp'[k].tasks = <<>> /\ ~resp'[k].empty
             /\ orderKey' = ids(personalTasks')
     /\ \A d \in Clients :
          (/\ reordered(groupTasks[d], groupTasks'[d])
           /\ \A k \in DOMAIN resp' : resp'[k].op \notin {"groupTasks", "failed"})
             => /\ resp' # <<>>
                /\ \A k \in DOMAIN resp' : resp'[k].op = "groupOrder"
                /\ orderGroup' = ids(groupTasks'[d])
    ]_vars

----------------------------------------------------------------------------
(* POST /api/auth/login of both builds, one step per `await` that reads or *)
(* writes the store.  The legacy record user:<email> has the id of user 1  *)
(* and two tasks; tasksKey and orderKey are the task keys of that id.  The *)
(* password is the secret of the account or not (`isMatch`).               *)

\* redis.get(`user:${cleanId}`) of the old format
oldUserPayload == [id |-> 1, data |-> [tasks |-> <<LegacyTask("t2", 0), LegacyTask("t1", 0)>>]]

\* identifiers submitted to login: the e-mail of the legacy record in
\* another case, the e-mail of user 2, the user name of user 2
LoginIds == {<<"J",".","a","n","e","@","x",".","i","o">>, Old2_x, Name_jane}

\* what no login writes
loginFrame == <<deployed, reg, ses, grp, claimants, changes, groupMeta, members,
                groupInvites, invites, userGroups, tasksGroup, orderGroup, chatKey, view,
                isLoggedIn, personalTasks, groupTasks, toasts, appended, pollVars, network,
                clock, resp, prev, avail, job>>

LogStep(l, rec) == lgn' = [lgn EXCEPT ![l] = rec]

LogDone(l, res) == LogStep(l, [lgn[l] EXCEPT !.pc = "done", !.result = res])

\* the first lookup: email:<cleanId> or username:<cleanId>.  srv build:
\* only an e-mail without a mapping goes on to the legacy record; api
\* build: every identifier without a mapping does
login_resolve(l) ==
  /\ lgn[l].pc = "idle"
  /\ \E identifier \in LoginIds, isMatch \in BOOLEAN :
       LET cleanId == toLowerCase(identifier)
           index == IF firstAt(cleanId, 1) # 0 THEN email ELSE username
           req == [lgn[l] EXCEPT !.cleanId = cleanId, !.isMatch = isMatch]
       IN IF Has(index, cleanId)
          THEN LogStep(l, [req EXCEPT !.pc = "getProfile", !.userId = index[cleanId]])
          ELSE IF deployed = "api" \/ firstAt(cleanId, 1) # 0
               THEN LogStep(l, [req EXCEPT !.pc = "getOld"])
               ELSE LogDone(l, "Unauthorized")
  /\ UNCHANGED <<loginFrame, username, email, user, legacyUser, tasksKey, orderKey>>

\* `await redis.get(`user:${cleanId}`)`.  srv build: the password is
\* compared with the hash of the old record, then the migration starts;
\* api build: `userId = oldUser.id` and the profile is read next
login_getOld(l) ==
  /\ lgn[l].pc = "getOld"
  /\ IF lgn[l].cleanId \notin legacyUser THEN LogDone(l, "Unauthorized")
     ELSE IF deployed = "api"
          THEN LogStep(l, [lgn[l] EXCEPT !.pc = "getProfile", !.userId = oldUserPayload.id,
                                         !.requiresMigration = TRUE])
          ELSE IF ~lgn[l].isMatch THEN LogDone(l, "Unauthorized")
               ELSE LogStep(l, [lgn[l] EXCEPT !.pc = "claim", !.userId = oldUserPayload.id,
                                              !.requiresMigration = TRUE,
                                              !.base = deriveBase(lgn[l].cleanId),
                                              !.candidate = deriveBase(lgn[l].cleanId)])
  /\ UNCHANGED <<loginFrame, username, email, user, legacyUser, tasksKey, orderKey>>

\* `await redis.get(`user:${userId}`)` and bcrypt.compare
login_getProfile(l) ==
  /\ lgn[l].pc = "getProfile"
  /\ IF ~Has(user, lgn[l].userId) \/ ~lgn[l].isMatch THEN LogDone(l, "Unauthorized")
     ELSE IF deployed = "api" THEN LogDone(l, "OK")
          ELSE LogStep(l, [lgn[l] EXCEPT !.pc = "fetch"])
  /\ UNCHANGED <<loginFrame, username, email, user, legacyUser, tasksKey, orderKey>>

\* srv build, migration: one iteration of generateAndClaimUniqueUsername;
\* its throw after the tenth failure is caught by login (500)
login_claim(l) ==
  /\ lgn[l].pc = "claim"
  /\ LET result == SetNX(username, toLowerCase(lgn[l].candidate), lgn[l].userId) IN
       /\ username' = result.store
       /\ IF result.ok
          THEN LogStep(l, [lgn[l] EXCEPT !.pc = "setUser", !.newUsername = lgn[l].candidate])
          ELSE \E suffix \in Suffixes :
                 LET next == [lgn[l] EXCEPT !.attempts = @ + 1,
                                            !.candidate = lgn[l].base \o numToString(suffix)]
                 IN IF next.attempts < MaxAttempts
                    THEN LogStep(l, next)
                    ELSE LogStep(l, [next EXCEPT !.pc = "done", !.result = "Internal"])
  /\ UNCHANGED <<loginFrame, email, user, legacyUser, tasksKey, orderKey>>

\* srv build, migration: the writes after the claim, an await each:
\* set user:<newUid>, set email:<cleanId>, hset data:tasks:<newUid>,
\* set data:tasks:order:<newUid>, del user:<cleanId>
login_migrate(l) ==
  LET cleanT == [i \in DOMAIN oldUserPayload.data.tasks |-> cleanTask_srv(oldUserPayload.data.tasks[i])]
  IN \/ /\ lgn[l].pc = "setUser"
        /\ user' = Set(user, lgn[l].userId,
                       Profile(lgn[l].cleanId, lgn[l].newUsername, 0, DefaultTheme))
        /\ LogStep(l, [lgn[l] EXCEPT !.pc = "setEmail"])
        /\ UNCHANGED <<loginFrame, username, email, legacyUser, tasksKey, orderKey>>
     \/ /\ lgn[l].pc = "setEmail"
        /\ email' = Set(email, lgn[l].cleanId, lgn[l].userId)
        /\ LogStep(l, [lgn[l] EXCEPT !.pc = IF cleanT # <<>> THEN "hset" ELSE "del"])
        /\ UNCHANGED <<loginFrame, username, user, legacyUser, tasksKey, orderKey>>
     \/ /\ lgn[l].pc = "hset"
        /\ IF tasksKey.type = "string"
           THEN tasksKey' = tasksKey /\ LogDone(l, "Internal")
           ELSE /\ tasksKey' = hashKey(hashUpdates(cleanT) @@ fieldsOf(tasksKey))
                /\ LogStep(l, [lgn[l] EXCEPT !.pc = "setOrder"])
        /\ UNCHANGED <<loginFrame, username, email, user, legacyUser, orderKey>>
     \/ /\ lgn[l].pc = "setOrder"
        /\ orderKey' = ids(cleanT)
        /\ LogStep(l, [lgn[l] EXCEPT !.pc = "del"])
        /\ UNCHANGED <<loginFrame, username, email, user, legacyUser, tasksKey>>
     \/ /\ lgn[l].pc = "del"
        /\ legacyUser' = legacyUser \ {lgn[l].cleanId}
        /\ LogStep(l, [lgn[l] EXCEPT !.pc = "fetch"])
        /\ UNCHANGED <<loginFrame, username, email, user, tasksKey, orderKey>>

\* srv build: `const tasks = await getTasks(userId!)`, the history and the
\* 200 response; the task key read here is never in the old format
login_fetch(l) ==
  /\ lgn[l].pc = "fetch"
  /\ LogDone(l, "OK")
  /\ UNCHANGED <<loginFrame, username, email, user, legacyUser, tasksKey, orderKey>>

Login(l) ==
  \/ login_resolve(l)
  \/ login_getOld(l)
  \/ login_getProfile(l)
  \/ login_claim(l)
  \/ login_migrate(l)
  \/ login_fetch(l)

\* user 2 is registered as "jane"; j.ane@x.io has a record of the old
\* format or not
InitLogin ==
  /\ deployed \in {"api", "srv"}
  /\ user = (2 :> Profile(Old2_x, Name_jane, 0, DefaultTheme))
  /\ username = UsernameIndexOf(user)
  /\ email = EmailIndexOf(user)
  /\ legacyUser \in {{}, {JDotAne_x}}
  /\ reg = [r \in RegIds |-> IdleReg]
  /\ ses = [s \in SesIds |-> IdleSes]
  /\ claimants = [n \in DOMAIN username |-> {username[n]}]
  /\ changes = [u \in DOMAIN user |-> user[u].usernameChangeCount]
  /\ NoData

\* logins are served one at a time
NextLogin ==
  \E l \in LogIds : (\A k \in LogIds \ {l} : lgn[k].pc \in {"idle", "done"}) /\ Login(l)

SpecLogin == InitLogin /\ [][NextLogin]_vars

----------------------------------------------------------------------------
(* A claim about login, checked under SpecLogin *)

\* C25: a login with the right password and an e-mail that has no e-mail
\* key and a record of the old format ends with the account migrated: the
\* e-mail key holds the user id, exactly one user-name key holds it, the
\* id-keyed task mapping holds the old tasks and the order list their ids
\* in the order of the old array, and the old record is gone; no step of a
\* login with a wrong password writes.
C25_LoginMigrates ==
  [][\A l \in LogIds :
       /\ (lgn[l].pc # "done" /\ lgn'[l].pc = "done"
             /\ lgn'[l].requiresMigration /\ lgn'[l].isMatch)
            => /\ lgn'[l].result = "OK"
               /\ Has(email', lgn'[l].cleanId)
               /\ email'[lgn'[l].cleanId] = oldUserPayload.id
               /\ Cardinality({n \in DOMAIN username' :
                                 username'[n] = oldUserPayload.id}) = 1
               /\ DOMAIN fieldsOf(tasksKey') = Range(ids(oldUserPayload.data.tasks))
               /\ orderKey' = ids(oldUserPayload.data.tasks)
               /\ lgn'[l].cleanId \notin legacyUser'
       /\ (lgn'[l] # lgn[l] /\ ~lgn'[l].isMatch)
            => UNCHANGED <<username, email, user, legacyUser, tasksKey, orderKey>>
    ]_vars


----------------------------------------------------------------------------
(* check-username of both builds: POST with a session in src/api/index.ts, *)
(* GET without one in src/types.ts.  One step: a single store read.        *)

\* the names asked about: taken, taken in another case, free, with
\* characters outside the set, too short, too long
CheckNames == {Name_alice, Name_Alice, Name_bob, Name_carol, Name_bad,
               <<"a","b">>, [i \in 1..21 |-> "a"]}

checkUsername(uid, candidate) ==
  /\ avail' =
       IF deployed = "api"
       THEN IF Len(candidate) < 3 \/ Len(candidate) > 20
            THEN [uid |-> uid, username |-> candidate, status |-> 400, available |-> FALSE]
            ELSE LET existingId == IF Has(username, toLowerCase(candidate))
                                   THEN username[toLowerCase(candidate)] ELSE 0
                 IN [uid |-> uid, username |-> candidate, status |-> 200,
                     available |-> (existingId = 0 \/ existingId = uid)]
       ELSE LET cleanUser == toLowerCase(candidate) IN
            IF Len(cleanUser) < 3 \/ Len(cleanUser) > 20
                 \/ \E i \in 1..Len(cleanUser) : ~IsWordChar(cleanUser[i])
            THEN [uid |-> uid, username |-> candidate, status |-> 200, available |-> FALSE]
            ELSE [uid |-> uid, username |-> candidate, status |-> 200,
                  available |-> ~Has(username, cleanUser)]
  /\ UNCHANGED <<deployed, username, email, user, legacyUser, reg, ses, grp, claimants,
                 changes, groupMeta, members, groupInvites, invites, userGroups, tasksGroup,
                 orderGroup, chatKey, view, isLoggedIn, personalTasks, groupTasks, toasts,
                 appended, pollVars, lgn, job, network, clock, resp, prev, tasksKey,
                 orderKey>>

\* the checks run between the steps of one settings request
NextCheck ==
  \/ Settings(1) /\ UNCHANGED dataVars
  \/ \E uid \in Users, candidate \in CheckNames : checkUsername(uid, candidate)

SpecCheck == InitSettings /\ [][NextCheck]_vars

----------------------------------------------------------------------------
(* A claim about check-username, checked under SpecCheck *)

\* C26: check-username asked by user u about a candidate reports
\* "available" exactly when the candidate has 3 to 20 characters, all of
\* them letters, digits or underscores, and its user-name key is unmapped
\* or mapped to u.
C26_AvailableIffValidAndFree ==
  [][avail' # avail
       => LET candidate == avail'.username
              key == toLowerCase(candidate)
          IN (avail'.status = 200 /\ avail'.available)
               <=> /\ Len(candidate) >= 3 /\ Len(candidate) <= 20
                   /\ \A i \in 1..Len(candidate) : candidate[i] \in WordChars
                   /\ (~Has(username, key) \/ username[key] = avail'.uid)
    ]_vars


----------------------------------------------------------------------------
(* saveTasks and getTasks on the personal task key, one step per `await`:  *)
(* concurrent requests of one user interleave between these steps.         *)

\* the task lists submitted to saveTasks
SaveLists == {<<T1>>, <<T2>>, <<T1, T2>>, <<>>}

\* what the task helpers leave alone
jobFrame == <<deployed, username, email, user, legacyUser, reg, ses, grp, claimants,
              changes, groupMeta, members, groupInvites, invites, userGroups, tasksGroup,
              orderGroup, chatKey, view, isLoggedIn, personalTasks, groupTasks, toasts,
              appended, pollVars, lgn, avail, network, clock, resp, prev>>

JobStep(j, rec) == job' = [job EXCEPT ![j] = rec]

\* the pipeline of saveTasks without its HSET
execPipeline_hdelOnly(key, currentIds, cleanTasks) ==
  LET current == fieldsOf(key)
      idsToDelete == currentIds \ Range(ids(cleanTasks))
  IN hashKey([id \in DOMAIN current \ idsToDelete |-> current[id]])

\* `await pipeline.exec()` of saveTasks: HDEL of the ids read by HKEYS
\* that the payload lacks, then HSET of the payload, on the key as it is now
execPipeline(key, currentIds, cleanTasks) ==
  LET current == fieldsOf(key)
      newIds == Range(ids(cleanTasks))
      idsToDelete == currentIds \ newIds
      updates == hashUpdates(cleanTasks)
  IN hashKey([id \in (DOMAIN current \ idsToDelete) \cup newIds |->
                IF id \in newIds THEN updates[id] ELSE current[id]])

\* the ids of the tasks getTasks returns when it runs alone on the key:
\* the fields of a hash; of a legacy array its tasks in src/types.ts, which
\* migrates, and nothing in src/api/index.ts, which does not
readable(key) ==
  IF key.type = "hash" THEN DOMAIN key.hash
  ELSE IF key.type = "string" /\ deployed = "srv" THEN Range(ids(key.blob))
  ELSE {}

\* saveTasks of both builds
saveTasks_steps(j) ==
  \/ /\ job[j].pc = "idle"
     /\ \E tasks \in SaveLists, forceEmpty \in BOOLEAN :
          LET cleanTasks == [i \in DOMAIN tasks |->
                               IF deployed = "api" THEN cleanTask(tasks[i])
                               ELSE cleanTask_srv(tasks[i])]
              call == [IdleJob EXCEPT !.op = "saveTasks", !.tasks = cleanTasks,
                                      !.before = readable(tasksKey)]
          IN IF cleanTasks = <<>> /\ ~forceEmpty
             THEN JobStep(j, [call EXCEPT !.pc = "ignored"])
             ELSE IF cleanTasks = <<>> /\ deployed = "srv"
                  THEN JobStep(j, [call EXCEPT !.pc = "delAll"])
                  ELSE JobStep(j, [call EXCEPT !.type = tasksKey.type,
                                               !.pc = IF tasksKey.type = "string"
                                                      THEN "del" ELSE "hkeys"])
     /\ UNCHANGED <<jobFrame, tasksKey, orderKey>>
  \/ /\ job[j].pc \in {"del", "delAll"}
     /\ tasksKey' = None
     /\ JobStep(j, [job[j] EXCEPT !.pc = IF job[j].pc = "del" THEN "hkeys" ELSE "done"])
     /\ UNCHANGED <<jobFrame, orderKey>>
  \/ /\ job[j].pc = "hkeys"
     /\ JobStep(j, [job[j] EXCEPT !.pc = "exec", !.currentIds = DOMAIN fieldsOf(tasksKey)])
     /\ UNCHANGED <<jobFrame, tasksKey, orderKey>>
  \/ /\ job[j].pc = "exec"
     /\ tasksKey' = execPipeline(tasksKey, job[j].currentIds, job[j].tasks)
     /\ JobStep(j, [job[j] EXCEPT !.pc = "done"])
     /\ UNCHANGED <<jobFrame, orderKey>>

\* getTasks: the migration of src/types.ts; src/api/index.ts reads only.
\* GET of a key that holds a hash fails (WRONGTYPE) and the call throws
getTasks_steps(j) ==
  \/ /\ job[j].pc = "idle"
     /\ JobStep(j, [IdleJob EXCEPT !.op = "getTasks", !.type = tasksKey.type,
                                   !.seen = DOMAIN fieldsOf(tasksKey),
                                   !.pc = IF deployed = "srv" /\ tasksKey.type = "string"
                                          THEN "get" ELSE "done"])
     /\ UNCHANGED <<jobFrame, tasksKey, orderKey>>
  \/ /\ job[j].pc = "get"
     /\ JobStep(j, IF tasksKey.type = "hash" THEN [job[j] EXCEPT !.pc = "thrown"]
                   ELSE [job[j] EXCEPT !.pc = "delBlob",
                                       !.tasks = IF tasksKey.type = "string"
                                                 THEN tasksKey.blob ELSE <<>>,
                                       !.seen = IF tasksKey.type = "string"
                                                THEN Range(ids(tasksKey.blob)) ELSE {}])
     /\ UNCHANGED <<jobFrame, tasksKey, orderKey>>
  \/ /\ job[j].pc = "delBlob"
     /\ tasksKey' = None
     /\ JobStep(j, [job[j] EXCEPT !.pc = IF job[j].tasks # <<>> THEN "hset" ELSE "done"])
     /\ UNCHANGED <<jobFrame, orderKey>>
  \/ /\ job[j].pc = "hset"
     /\ tasksKey' = hashKey(hashUpdates(job[j].tasks) @@ fieldsOf(tasksKey))
     /\ JobStep(j, [job[j] EXCEPT !.pc = "setOrder"])
     /\ UNCHANGED <<jobFrame, orderKey>>
  \/ /\ job[j].pc = "setOrder"
     /\ orderKey' = ids(job[j].tasks)
     /\ JobStep(j, [job[j] EXCEPT !.pc = "done"])
     /\ UNCHANGED <<jobFrame, tasksKey>>

\* the key is absent, a hash of two tasks, or a legacy array
InitJobs == InitData /\ view = "personal"

NextSaves == \E j \in JobIds : saveTasks_steps(j)

SpecSaves == InitJobs /\ [][NextSaves]_vars

Finished(j) == job[j].pc \in {"done", "ignored", "thrown"}

Quiet == \A j \in JobIds : job[j].pc = "idle" \/ Finished(j)

----------------------------------------------------------------------------
(* A claim about concurrent saves, checked under SpecSaves *)

\* the calls that synced a list
synced == {j \in JobIds : job[j].op = "saveTasks" /\ job[j].pc = "done"}

----------------------------------------------------------------------------
(* A claim about concurrent reads of a legacy value, checked under SpecJobs *)

NextJobs == \E j \in JobIds : saveTasks_steps(j) \/ getTasks_steps(j)

SpecJobs == InitJobs /\ [][NextJobs]_vars

\* the calls that read the legacy array
migrating == {j \in JobIds : job[j].op = "getTasks" /\ job[j].tasks # <<>>}

\* C28: when concurrent getTasks calls, and no other call, have run on a
\* key that held a legacy array and all have completed, the id-keyed
\* mapping holds every task of that array.
C28_MigrationKeepsTasks ==
  (/\ Quiet
   /\ \A j \in JobIds : job[j].op \in {"none", "getTasks"}
   /\ migrating # {})
    => \A j \in migrating : Range(ids(job[j].tasks)) \subseteq DOMAIN fieldsOf(tasksKey)


----------------------------------------------------------------------------
(* A claim about the user-name index, checked under SpecAccounts: of one   *)
(* register request, one settings request and the login requests, any     *)
(* MaxInFlight interleave at their awaits.                                 *)

\* how many requests overlap
MaxInFlight == 2

\* the requests that have been received
started ==
  {<<"reg", r>> : r \in {r \in RegIds : reg[r].pc # "idle"}}
    \cup {<<"ses", s>> : s \in {s \in SesIds : ses[s].pc # "idle"}}
    \cup {<<"lgn", l>> : l \in {l \in LogIds : lgn[l].pc # "idle"}}

admitted(slot) == slot \in started \/ Cardinality(started) < MaxInFlight

NextAccounts ==
  \/ admitted(<<"reg", 1>>) /\ Register(1) /\ UNCHANGED dataVars
  \/ admitted(<<"ses", 1>>) /\ Settings(1) /\ UNCHANGED dataVars
  \/ \E l \in LogIds : admitted(<<"lgn", l>>) /\ Login(l)

SpecAccounts == InitLogin /\ [][NextAccounts]_vars

\* no request is in flight
Quiescent ==
  /\ \A r \in RegIds : reg[r].pc \in {"idle", "done"}
  /\ \A s \in SesIds : ses[s].pc \in {"idle", "done"}
  /\ \A l \in LogIds : lgn[l].pc \in {"idle", "done"}

\* C29: in every state without a request in flight, each user-name key
\* maps to a user whose profile carries that name (compared in lower
\* case), and each user is mapped by exactly one user-name key.
C29_IndexAgreesWithProfiles ==
  Quiescent =>
    /\ \A n \in DOMAIN username :
         /\ Has(user, username[n])
         /\ toLowerCase(user[username[n]].username) = n
    /\ \A u \in DOMAIN user : Cardinality({n \in DOMAIN username : username[n] = u}) = 1


----------------------------------------------------------------------------
(* A claim about requests around a delete of the group, checked under      *)
(* SpecGroups                                                              *)

\* nothing of the group is stored and no index of a user holds it; the
\* task order list, which the delete never removes, is not looked at
groupGone ==
  /\ groupMeta = None /\ members = {} /\ groupInvites = {}
  /\ tasksGroup = <<>> /\ chatKey = <<>>
  /\ userGroups = {} /\ invites = {}

\* a delete has run its pipeline: a group was created (the clock has moved)
\* and its meta is absent, which only deleteGroup_exec brings about; the
\* id of a deleted group is never used again
deleted == clock > 0 /\ groupMeta = None

\* C30: once a delete has completed, every state without a request in
\* flight has no meta, member set, invite set, tasks or chat of the group
\* and no user's group or invite index holding it, whatever request was in
\* flight during the delete or came after it.
C30_GroupStaysDeleted == (deleted /\ grp = EmptyBag) => groupGone


----------------------------------------------------------------------------
(* A claim about the two sides of the group indexes, checked under         *)
(* SpecGroups                                                              *)

\* C31: in every state without a request in flight, a user is in the
\* group's member set exactly when the group is in the user's group index,
\* and in the group's invite set exactly when the group is in the user's
\* invite index.
C31_IndexSidesAgree ==
  grp = EmptyBag => (members = userGroups /\ groupInvites = invites)


----------------------------------------------------------------------------
(* A claim about the states inside a rename, checked under SpecSettings *)

\* settings requests that rename and are between their first read and
\* their answer
renaming ==
  {s \in SesIds : ses[s].pc \in {"claim", "del", "setUser"}
                    /\ isRename(ses[s].newName, ses[s].snap)}

\* C32: in every state inside a rename, the renaming user's id is mapped
\* by at least one user-name key.
C32_RenamerAlwaysMapped ==
  \A s \in renaming : \E n \in DOMAIN username : username[n] = ses[s].uid


----------------------------------------------------------------------------
(* Store failures: an awaited write of the store rejects.  register        *)
(* catches it and answers 500; the settings handler has no try block, the  *)
(* rejection ends the handler.  Neither has a compensating write.          *)

\* register: `await redis.set(user...)` or `await redis.set(email...)` throws
register_writeFails(r) ==
  /\ reg[r].pc \in {"setUser", "setEmail"}
  /\ RegDone(r, "Internal")
  /\ UNCHANGED <<deployed, username, email, user, legacyUser, ses, claimants, changes>>

\* settings: `await redis.del(username...)` or `await redis.set(user...)` throws
settings_writeFails(s) ==
  /\ ses[s].pc \in {"del", "setUser"}
  /\ SesDone(s, "Thrown")
  /\ UNCHANGED <<deployed, username, email, user, legacyUser, reg, claimants, changes>>

\* one register request and one settings request, whose writes may fail
NextFailing ==
  \/ Register(1) /\ UNCHANGED dataVars
  \/ Settings(1) /\ UNCHANGED dataVars
  \/ register_writeFails(1) /\ UNCHANGED dataVars
  \/ settings_writeFails(1) /\ UNCHANGED dataVars

SpecFailing == InitRegister /\ [][NextFailing]_vars

----------------------------------------------------------------------------
(* A claim about failures after a claim, checked under SpecFailing *)

\* every user-name key that maps to uid has a user record carrying the name
backed(uid) ==
  \A n \in DOMAIN username :
    username[n] = uid => (Has(user, uid) /\ toLowerCase(user[uid].username) = n)

\* C33: when a register or a settings request has failed after its claim
\* of a user name succeeded, no user-name key maps to its user id without
\* a user record that carries that name.
C33_NoClaimWithoutRecord ==
  /\ \A r \in RegIds :
       (reg[r].pc = "done" /\ reg[r].result = "Internal" /\ reg[r].username # NoVal)
         => backed(reg[r].userId)
  /\ \A s \in SesIds :
       (ses[s].pc = "done" /\ ses[s].result = "Thrown" /\ ses[s].claimed)
         => backed(ses[s].uid)


----------------------------------------------------------------------------
(* A claim about the end of user-name generation, checked under            *)
(* SpecRegister                                                            *)

\* the conditional writes a register request has made so far: the failed
\* ones and the one that succeeded
writesOf(r) == reg[r].attempts + (IF reg[r].username # NoVal THEN 1 ELSE 0)

----------------------------------------------------------------------------
(* A claim about a read next to a save, checked under SpecJobs *)

\* C35: when one saveTasks and one getTasks have run on the key, the read
\* returned either the tasks a read before the save would return or the
\* tasks of the saved list, never the state between the save's writes.
C35_ReadSeesBeforeOrAfter ==
  \A s, g \in JobIds :
    (/\ job[s].op = "saveTasks" /\ job[s].pc # "ignored"
     /\ job[g].op = "getTasks" /\ job[g].pc = "done")
      => job[g].seen \in {job[s].before, Range(ids(job[s].tasks))}

\* ---------------------------------------------------------------------------
\* The per-task endpoints of a group, one step per await
\* (src/api/index.ts, POST /api/groups/:id/tasks and
\* DELETE /api/groups/:id/tasks/:taskId)
\* ---------------------------------------------------------------------------

\* HSET key field value with every other field dropped
hset_whole(hash, field, value) == field :> value

\* HDEL key field with every other field dropped too
hdel_all(hash, field) == [f \in {} |-> hash[f]]

\* `redis.hset(key, { [field]: value })`: the one field is set
hset(hash, field, value) == assign(hash, field :> value)

\* `redis.hdel(key, field)`: the one field is removed
hdel(hash, field) == [f \in DOMAIN hash \ {field} |-> hash[f]]

\* a per-task request before its first await
IdleEdit == [pc |-> "idle", op |-> "none", uid |-> 0, id |-> "", task |-> [id |-> ""],
             order |-> NoVal, status |-> 0]

\* the tasks of the group before the run
seededGroup == hashUpdates(<<T1, T2>>)

\* req.body of POST /tasks: a task of the group toggled by a client, or a new one
EditBodies == {toggled(T1, 1), toggled(T2, 1), Task("t3", "simple", 1, 0, <<>>)}

\* req.params.taskId of DELETE /tasks/:taskId
EditIds == {"t1", "t2"}

\* `task.updatedBy = user?.username || 'Unknown'; task.groupId = groupId`
tagged(task, uid) ==
  assign(task, [updatedBy |-> IF uid \in DOMAIN user THEN user[uid].username
                              ELSE <<"U","n","k","n","o","w","n">>,
                groupId |-> GroupId])

\* the per-task request r is answered and kept for the record
EditDone(r, rec, status) ==
  /\ grp' = (grp (-) SetToBag({r})) (+) SetToBag({[rec EXCEPT !.pc = "done", !.status = status]})
  /\ resp' = <<[op |-> rec.op, uid |-> rec.uid, targetId |-> 0, status |-> status]>>

\* the variables no endpoint of a group's tasks writes
editFrame == <<aloofVars, memberVars, chatKey, clock>>

\* POST /tasks: `const isMember = await redis.sismember(members, req.user.uid)`;
\* `if (!isMember) return res.status(403)`
taskPost_isMember ==
  /\ Free
  /\ \E uid \in Users, task \in EditBodies :
       LET rec == [IdleEdit EXCEPT !.op = "upsert", !.uid = uid, !.id = task.id, !.task = task]
       IN IF uid \notin members THEN EditDone(IdleEdit, rec, 403)
          ELSE GrpStep(IdleEdit, [rec EXCEPT !.pc = "getUser"])
  /\ UNCHANGED <<editFrame, tasksGroup, orderGroup>>

\* POST /tasks: `const user = await redis.get(`user:${req.user.uid}`)` and the tags
taskPost_getUser ==
  /\ \E r \in BagToSet(grp) :
       /\ r.pc = "getUser"
       /\ GrpStep(r, [r EXCEPT !.pc = "hset", !.task = tagged(r.task, r.uid)])
  /\ UNCHANGED <<editFrame, tasksGroup, orderGroup>>

\* POST /tasks: `await redis.hset(`tasks:group:${groupId}`, { [task.id]: JSON.stringify(task) })`
taskPost_hset ==
  /\ \E r \in BagToSet(grp) :
       /\ r.pc = "hset"
       /\ tasksGroup' = hset(tasksGroup, r.task.id, r.task)
       /\ EditDone(r, r, 200)
  /\ UNCHANGED <<editFrame, orderGroup>>

\* DELETE /tasks/:taskId: `const isMember = await redis.sismember(...)`
taskDelete_isMember ==
  /\ Free
  /\ \E uid \in Users, taskId \in EditIds :
       LET rec == [IdleEdit EXCEPT !.op = "delete", !.uid = uid, !.id = taskId]
       IN IF uid \notin members THEN EditDone(IdleEdit, rec, 403)
          ELSE GrpStep(IdleEdit, [rec EXCEPT !.pc = "hdel"])
  /\ UNCHANGED <<editFrame, tasksGroup, orderGroup>>

\* DELETE /tasks/:taskId: `await redis.hdel(`tasks:group:${req.params.id}`, req.params.taskId)`
taskDelete_hdel ==
  /\ \E r \in BagToSet(grp) :
       /\ r.pc = "hdel"
       /\ tasksGroup' = hdel(tasksGroup, r.id)
       /\ EditDone(r, r, 200)
  /\ UNCHANGED <<editFrame, orderGroup>>

\* POST /tasks/order: `const isMember = await redis.sismember(...)`; the
\* bodies drawn are arrays, so `if (!Array.isArray(order)) return 400` passes
taskOrder_isMember ==
  /\ Free
  /\ \E uid \in Users, order \in RawOrders :
       LET rec == [IdleEdit EXCEPT !.op = "order", !.uid = uid, !.order = order]
       IN IF uid \notin members THEN EditDone(IdleEdit, rec, 403)
          ELSE GrpStep(IdleEdit, [rec EXCEPT !.pc = "set"])
  /\ UNCHANGED <<editFrame, tasksGroup, orderGroup>>

\* POST /tasks/order: `await redis.set(`tasks:group:order:${groupId}`, JSON.stringify(order))`
taskOrder_set ==
  /\ \E r \in BagToSet(grp) :
       /\ r.pc = "set"
       /\ orderGroup' = r.order
       /\ EditDone(r, r, 200)
  /\ UNCHANGED <<editFrame, tasksGroup>>

\* POST /api/user/data with an order list and no tasks: its one await is
\* `redis.set(`data:tasks:order:${userId}`, order)`
userData_order ==
  /\ \E order \in RawOrders :
       LET db == userData([key |-> tasksKey, order |-> orderKey], [order |-> order])
       IN /\ tasksKey' = db.key /\ orderKey' = db.order
          /\ resp' = <<[op |-> "userData", uid |-> 1, targetId |-> 0, status |-> 200]>>
  /\ UNCHANGED <<deployed, username, email, user, legacyUser, reg, ses, claimants, changes,
                 view, isLoggedIn, personalTasks, groupTasks, toasts, network, flightVars,
                 prev, grp, storeVars, clock>>

\* the group of user 1 alone or of both users, with two tasks, and the same
\* two tasks as the personal collection of user 1
InitEdits ==
  /\ deployed = "api"
  /\ user = SesSeeds
  /\ username = UsernameIndexOf(SesSeeds)
  /\ email = EmailIndexOf(SesSeeds)
  /\ legacyUser = {}
  /\ reg = [r \in RegIds |-> IdleReg]
  /\ ses = [s \in SesIds |-> IdleSes]
  /\ claimants = [n \in DOMAIN username |-> {username[n]}]
  /\ changes = [u \in DOMAIN user |-> user[u].usernameChangeCount]
  /\ tasksKey = hashKey(seededGroup) /\ orderKey = <<"t2", "t1">>
  /\ view = "group" /\ isLoggedIn = FALSE /\ personalTasks = <<>>
  /\ groupTasks = [d \in Clients |-> <<>>] /\ toasts = <<>> /\ network = "up"
  /\ grp = EmptyBag
  /\ groupMeta = Group(GroupId, Owner)
  /\ members \in {{Owner}, Users}
  /\ userGroups = members
  /\ groupInvites = {} /\ invites = {}
  /\ tasksGroup = seededGroup /\ orderGroup = <<"t2", "t1">> /\ chatKey = <<>>
  /\ NoFlight
  /\ clock = 0 /\ resp = <<>> /\ prev = NoRequest

NextEdits ==
  \/ taskPost_isMember
  \/ taskPost_getUser
  \/ taskPost_hset
  \/ taskDelete_isMember
  \/ taskDelete_hdel
  \/ taskOrder_isMember
  \/ taskOrder_set
  \/ userData_order

SpecEdits == InitEdits /\ [][NextEdits]_vars

\* the requests that passed the membership check
edits == {r \in BagToSet(grp) : r.op \in {"upsert", "delete"} /\ r.status # 403}

\* the tasks that more than one request is about
contended == {id \in {r.id : r \in edits} :
                \E r, q \in edits : r.id = id /\ q.id = id /\ (r # q \/ CopiesIn(r, grp) > 1)}

\* C36: per-task writes of members to different tasks of one group all take
\* effect, whatever the interleaving: a task that one answered write is about
\* and no other request touches is stored as that write left it (the posted
\* task with its tags, or absent after a delete), and a task that no request
\* is about is as it was before the writes
C36_DisjointWritesAllLand ==
  /\ \A r \in edits :
       (r.pc = "done" /\ r.id \notin contended) =>
         IF r.op = "upsert"
         THEN r.id \in DOMAIN tasksGroup /\ tasksGroup[r.id] = r.task
         ELSE r.id \notin DOMAIN tasksGroup
  /\ \A id \in (DOMAIN seededGroup \cup DOMAIN tasksGroup) \ {r.id : r \in edits} :
       /\ id \in DOMAIN seededGroup /\ id \in DOMAIN tasksGroup
       /\ tasksGroup[id] = seededGroup[id]

\* two answered writes of different members to different tasks: one posted
\* task t1, the other deleted task t2, and the mapping holds t1 alone
C36_Witness ==
  /\ \E r, q \in edits :
       /\ r.pc = "done" /\ q.pc = "done" /\ r.uid # q.uid
       /\ r.op = "upsert" /\ r.id = "t1" /\ q.op = "delete" /\ q.id = "t2"
  /\ DOMAIN tasksGroup = {"t1"}
  /\ tasksGroup["t1"].updatedBy = user[1].username \/ tasksGroup["t1"].updatedBy = user[2].username

\* ---------------------------------------------------------------------------
\* Validation failures, checked under SpecAccounts
\* ---------------------------------------------------------------------------

\* the settings requests that ask for a new name of invalid format
malformedRenames ==
  {s \in SesIds : /\ ses[s].pc # "idle"
                  /\ isRename(ses[s].newName, ses[s].snap)
                  /\ ~usernameSchema(ses[s].newName)}

\* the registrations answered before a username was derived for them
turnedAway == {r \in RegIds : reg[r].pc = "done" /\ reg[r].base = NoVal}

\* C37: a request that fails validation is answered InvalidInput before any
\* write. A settings request whose new name has an invalid format has ended
\* with InvalidInput once it has read the profile, so it never reaches the
\* claim, the release or the profile write; a registration answered before a
\* username was derived for it (the malformed e-mail, the short password, the
\* e-mail already known) ended with InvalidInput or AlreadyExists; and a
\* registration that goes on to its writes carries a well-formed e-mail
C37_InvalidRejectedBeforeWrite ==
  /\ \A s \in malformedRenames : ses[s].pc = "done" /\ ses[s].result = "InvalidInput"
  /\ \A r \in turnedAway : reg[r].result \in {"InvalidInput", "AlreadyExists"}
  /\ \A r \in RegIds : reg[r].pc \notin {"idle", "done"} => isEmail(reg[r].email)

\* ---------------------------------------------------------------------------
\* The frames of the fine-grained writes, checked under SpecEdits
\* ---------------------------------------------------------------------------

\* the step answers the request r of a member with 200
answers(r) == r.pc \in {"hset", "hdel", "set"} /\ CopiesIn(r, grp') < CopiesIn(r, grp)

\* C38: the fine-grained writes touch only their own part of a collection.
\* The step that completes a group's SaveOrder stores the posted order and
\* changes no task of the group; the step that completes a DeleteTask leaves
\* the mapping without the named task, every other task as it was, and the
\* order list as it was; a personal SaveOrder stores a posted order and leaves
\* the personal task collection as it was.  No such step touches the
\* collection of the other owner.
C38_FineGrainedFrames ==
  [][/\ \A r \in BagToSet(grp) :
          answers(r) =>
            /\ r.op = "order" =>
                 orderGroup' = r.order /\ tasksGroup' = tasksGroup
            /\ r.op = "delete" =>
                 /\ DOMAIN tasksGroup' = DOMAIN tasksGroup \ {r.id}
                 /\ \A id \in DOMAIN tasksGroup' : tasksGroup'[id] = tasksGroup[id]
                 /\ orderGroup' = orderGroup
            /\ tasksKey' = tasksKey /\ orderKey' = orderKey
     /\ (resp' # <<>> /\ resp'[1].op = "userData") =>
          /\ orderKey' \in RawOrders /\ tasksKey' = tasksKey
          /\ tasksGroup' = tasksGroup /\ orderGroup' = orderGroup]_vars

\* a member's DeleteTask of t2 and a SaveOrder of the group and of the
\* personal collection have been answered: the group's mapping holds t1 as
\* seeded and not t2, both order lists are posted ones and still name t2, and
\* the personal collection still holds both tasks
C38_Witness ==
  /\ DOMAIN tasksGroup = {"t1"} /\ tasksGroup["t1"] = T1
  /\ orderGroup = <<"t2", "t2", "t1">>
  /\ orderKey = <<"t2", "t2", "t1">>
  /\ tasksKey = hashKey(seededGroup)
  /\ \E r \in BagToSet(grp) : r.op = "delete" /\ r.id = "t2" /\ r.status = 200

\* ---------------------------------------------------------------------------
\* Chat posts of a member who changes their username meanwhile
\* (src/api/index.ts, POST /api/groups/:id/chat and POST /api/user/settings)
\* ---------------------------------------------------------------------------

\* the group of the owner alone with a short chat list
InitTalk == InitChat /\ members = {Owner}

NextTalk ==
  \/ chatPost_isMember
  \/ chatPost_getUser
  \/ chatPost_rpush
  \/ chatPost_ltrim
  \/ settings_getUser(1) /\ UNCHANGED dataVars
  \/ settings_claim(1) /\ UNCHANGED dataVars
  \/ settings_del(1) /\ UNCHANGED dataVars
  \/ settings_setUser(1) /\ UNCHANGED dataVars

SpecTalk == InitTalk /\ [][NextTalk]_vars

\* the step reads the profile for the chat post r and builds its message
readsSender(r) == r.pc = "getUser" /\ CopiesIn(r, grp') < CopiesIn(r, grp)

\* the chat requests that have built their message
built == {r \in BagToSet(grp) : r.pc \in {"rpush", "ltrim"}}

\* C39: the sender of a chat message is the username the sender has when the
\* post reads the profile, and no later step rewrites a stored message.  The
\* message a post builds names the username of the profile as it is in that
\* step; a message that joins the list is the message a post has built; a
\* message of the list that stays in it stays as it is; and a step of the
\* settings request leaves the list as it is
C39_SenderFixedAtPost ==
  [][/\ \A r \in BagToSet(grp) :
          readsSender(r) =>
            \E q \in BagToSet(grp') : q.pc = "rpush" /\ q.uid = r.uid
                                      /\ q.msg.id = clock' /\ q.msg.sender = user[r.uid].username
     /\ \A i \in DOMAIN chatKey' :
          \/ \E j \in DOMAIN chatKey : chatKey[j] = chatKey'[i]
          \/ \E r \in built : r.msg = chatKey'[i]
     /\ \A i \in DOMAIN chatKey', j \in DOMAIN chatKey :
          chatKey'[i].id = chatKey[j].id => chatKey'[i] = chatKey[j]
     /\ ses' # ses => chatKey' = chatKey]_vars

\* the owner has posted under the seeded name and has since been renamed:
\* the stored message of the run still names the seeded name, which the
\* profile no longer carries
C39_Witness ==
  /\ ses[1].pc = "done" /\ ses[1].uid = Owner
  /\ user[Owner].username # SesSeeds[Owner].username
  /\ \E i \in DOMAIN chatKey :
       chatKey[i].id > 0 /\ chatKey[i].sender = SesSeeds[Owner].username

====
